---- MODULE Spec2Model ----
(***************************************************************************)
(* State-machine model of the eCFR regulations API (fajumesi/Edmond_API):  *)
(* the fetch - aggregate - publish pipeline of app/fetcher.py, the         *)
(* snapshot reader of app/main.py and the triggers of app/scheduler.py     *)
(* and app/main.py.                                                        *)
(*                                                                         *)
(* Sizes in megabytes are kept as integers in thousandths of a megabyte    *)
(* (0.01 MB = 10), so that rounding to two decimals is a real operation.   *)
(* Timestamps are readings of an integer clock.                            *)
(***************************************************************************)
EXTENDS Integers, Sequences, FiniteSets, TLC

(***************************************************************************)
(* Bounds of the model.                                                    *)
(***************************************************************************)
MaxCycles == 2
MaxTitles == 2
MaxClock == 1
MaxAggLen == 3
MaxFanOut == 11
MaxCalls == 6
MaxListed == 3

(***************************************************************************)
(* Program constants.                                                      *)
(***************************************************************************)
BytesPerMb == 1048576
ConnectorLimit == 10
SessionTimeout == 300
PerCallTimeout == 60

(***************************************************************************)
(* Arithmetic helpers.                                                     *)
(***************************************************************************)
\* nearest integer to a / b, ties to the even neighbour (Python's round)
RoundDiv(a, b) ==
    LET q == a \div b
        r == a % b
    IN  IF 2 * r < b THEN q
        ELSE IF 2 * r > b THEN q + 1
        ELSE IF q % 2 = 0 THEN q ELSE q + 1

(***************************************************************************)
(* Python floats.  A size of x thousandths is held by the code as the      *)
(* double nearest to x / 1000, and sums and quotients of sizes are rounded *)
(* to 53 significant bits after every operation.  round(v, 2) rounds the   *)
(* exact binary value v, so for a value whose decimal is half-way between  *)
(* two hundredths the result depends on the side of the tie the double is  *)
(* on.  A double is kept here as its bits: bits[i] has weight              *)
(* 2^(i - 1 - FracBits).                                                   *)
(***************************************************************************)
FracBits == 8 * 10
Width == FracBits + 26

\* 2^n % m, by repeated squaring
RECURSIVE PowMod(_, _)
PowMod(n, m) ==
    IF n = 0 THEN 1 % m
    ELSE IF n % 2 = 0
         THEN LET h == PowMod(n \div 2, m) IN (h * h) % m
         ELSE (2 * PowMod(n - 1, m)) % m

\* 2^n for n <= 30
Pow2(n) == PowMod(n, 2147483647)

\* (r * 2^n) % 1000
RemAfter(r, n) == (r * PowMod(n, 1000)) % 1000

\* a bit vector as a sequence of Width bits
AsBits(f) == SubSeq(f, 1, Width)

\* the first Width bits of the exact quotient x / 1000
RawBits(x) ==
    AsBits([i \in 1..Width |->
               IF i > FracBits
               THEN ((x \div 1000) \div Pow2(i - FracBits - 1)) % 2
               ELSE (2 * RemAfter(x % 1000, FracBits - i)) \div 1000])

ZeroBits == AsBits([i \in 1..Width |-> 0])

\* the position of the leading 1, 0 for zero
TopBit(bits) ==
    IF \E i \in 1..Width : bits[i] = 1
    THEN CHOOSE i \in 1..Width :
            bits[i] = 1 /\ \A j \in (i + 1)..Width : bits[j] = 0
    ELSE 0

\* what positions lo..hi of a + b do to a carry: 0 absorb it, 1 pass it
\* on, 2 produce one
RECURSIVE CarryOf(_, _, _, _)
CarryOf(a, b, lo, hi) ==
    IF lo > hi THEN 1
    ELSE IF lo = hi THEN a[lo] + b[lo]
    ELSE LET mid == (lo + hi) \div 2
             upper == CarryOf(a, b, mid + 1, hi)
         IN  IF upper = 1 THEN CarryOf(a, b, lo, mid) ELSE upper

\* the carry into position i of a + b
Carry(a, b, i) == IF CarryOf(a, b, 1, i - 1) = 2 THEN 1 ELSE 0

BitsAdd(a, b) ==
    AsBits([i \in 1..Width |-> (a[i] + b[i] + Carry(a, b, i)) % 2])

\* the number held by positions lo..hi of a (position lo counting 1),
\* modulo n
RECURSIVE BitsMod(_, _, _, _)
BitsMod(a, n, lo, hi) ==
    IF lo > hi THEN 0
    ELSE IF lo = hi THEN a[lo] % n
    ELSE LET mid == (lo + hi) \div 2
         IN  (BitsMod(a, n, mid + 1, hi) * PowMod(mid + 1 - lo, n)
              + BitsMod(a, n, lo, mid)) % n

\* long division of a by the integer n: the remainder carried into
\* position i from the positions above it
DivRem(a, n, i) == BitsMod(a, n, i + 1, Width)

\* the quotient of a by n, and whether a remainder is left
BitsDiv(a, n) ==
    [bits |-> AsBits([i \in 1..Width |->
                         (2 * DivRem(a, n, i) + a[i]) \div n]),
     sticky |-> BitsMod(a, n, 1, Width) # 0]

\* round to nearest, ties to even, at 53 significant bits; sticky: the
\* exact value has further 1 bits below bits[1]; skew is the sign of
\* (rounded - exact)
Round53(bits, sticky) ==
    LET p == TopBit(bits)
        lo == p - 52
    IN  IF p <= 53 THEN [bits |-> bits, skew |-> 0]
        ELSE LET guard == bits[lo - 1]
                 rest == sticky \/ \E i \in 1..(lo - 2) : bits[i] = 1
                 trunc == AsBits([i \in 1..Width |->
                                     IF i >= lo THEN bits[i] ELSE 0])
                 unit == AsBits([i \in 1..Width |->
                                    IF i = lo THEN 1 ELSE 0])
             IN  IF guard = 1 /\ (rest \/ bits[lo] = 1)
                 THEN [bits |-> BitsAdd(trunc, unit), skew |-> 1]
                 ELSE [bits |-> trunc,
                       skew |-> IF guard = 1 \/ rest THEN 0 - 1 ELSE 0]

\* the double of the literal x / 1000
DoubleOf(x) == Round53(RawBits(x), RemAfter(x % 1000, FracBits) # 0)

\* a + b and a / n on doubles
DoubleAdd(a, b) == Round53(BitsAdd(a, b), FALSE).bits

DoubleDiv(a, n) == Round53(BitsDiv(a, n).bits, BitsDiv(a, n).sticky).bits

\* the sign of a - b
DoubleCmp(a, b) ==
    IF a = b THEN 0
    ELSE LET i == CHOOSE k \in 1..Width :
                     a[k] # b[k] /\ \A j \in (k + 1)..Width : a[j] = b[j]
         IN  IF a[i] > b[i] THEN 1 ELSE 0 - 1

\* round(v, 2) of a double v whose decimal is within a rounding error of
\* the tie x (x % 10 = 5), side being the sign of v - x / 1000
RoundTie(x, side) ==
    IF side > 0 THEN x + 5
    ELSE IF side < 0 THEN x - 5
    ELSE 10 * RoundDiv(x, 10)

\* round(x, 2) of a size given in thousandths of a megabyte
Round2(x) ==
    IF x % 10 # 5 THEN 10 * RoundDiv(x, 10)
    ELSE RoundTie(x, DoubleOf(x).skew)

RECURSIVE ExactSum(_)
ExactSum(addends) ==
    IF addends = <<>> THEN 0 ELSE addends[1] + ExactSum(Tail(addends))

\* ((0.0 + a1) + a2) + ... on doubles
RECURSIVE FloatSum(_, _)
FloatSum(acc, addends) ==
    IF addends = <<>> THEN acc
    ELSE FloatSum(DoubleAdd(acc, DoubleOf(addends[1]).bits), Tail(addends))

\* round(a1 + a2 + ..., 2): away from a tie the float sum rounds like the
\* exact sum; at a tie the float sum is compared with the tie
RoundSum2(addends) ==
    LET exact == ExactSum(addends)
    IN  IF exact % 10 # 5 THEN 10 * RoundDiv(exact, 10)
        ELSE LET side == DoubleCmp(FloatSum(ZeroBits, addends),
                                   DoubleOf(exact).bits)
             IN  IF side # 0 THEN RoundTie(exact, side) ELSE Round2(exact)

\* round(total / n, 2) for an integer n > 0
RoundQuot2(total, n) ==
    IF 2 * (total % (10 * n)) # 10 * n THEN 10 * RoundDiv(total, 10 * n)
    ELSE LET side == DoubleCmp(DoubleDiv(DoubleOf(total).bits, n),
                               DoubleOf(total \div n).bits)
         IN  IF side # 0 THEN RoundTie(total \div n, side)
             ELSE Round2(total \div n)

\* round(size_bytes / (1024 * 1024), 2), in thousandths of a megabyte
SizeMb(size_bytes) ==
    10 * ((size_bytes \div BytesPerMb) * 100
          + RoundDiv((size_bytes % BytesPerMb) * 100, BytesPerMb))

RECURSIVE SumSizes(_)
SumSizes(s) ==
    IF s = <<>> THEN 0 ELSE s[1].size_mb + SumSizes(Tail(s))

(***************************************************************************)
(* The static title -> agency table of map_titles_to_agencies.             *)
(***************************************************************************)
A(n, c) == [name |-> n, code |-> c]

title_agency_map ==
    (1 :> A("General Provisions", "GEN")) @@
    (2 :> A("Grants and Agreements", "GRANTS")) @@
    (3 :> A("The President", "POTUS")) @@
    (4 :> A("Accounts", "GAO")) @@
    (5 :> A("Administrative Personnel", "OPM")) @@
    (6 :> A("Domestic Security", "DHS")) @@
    (7 :> A("Agriculture", "USDA")) @@
    (8 :> A("Aliens and Nationality", "USCIS")) @@
    (9 :> A("Animals and Animal Products", "APHIS")) @@
    (10 :> A("Energy", "DOE")) @@
    (11 :> A("Federal Elections", "FEC")) @@
    (12 :> A("Banks and Banking", "FRB")) @@
    (13 :> A("Business Credit and Assistance", "SBA")) @@
    (14 :> A("Aeronautics and Space", "FAA")) @@
    (15 :> A("Commerce and Foreign Trade", "DOC")) @@
    (16 :> A("Commercial Practices", "FTC")) @@
    (17 :> A("Commodity and Securities Exchanges", "SEC")) @@
    (18 :> A("Conservation of Power and Water Resources", "FERC")) @@
    (19 :> A("Customs Duties", "CBP")) @@
    (20 :> A("Employees' Benefits", "DOL")) @@
    (21 :> A("Food and Drugs", "FDA")) @@
    (22 :> A("Foreign Relations", "STATE")) @@
    (23 :> A("Highways", "FHWA")) @@
    (24 :> A("Housing and Urban Development", "HUD")) @@
    (25 :> A("Indians", "BIA")) @@
    (26 :> A("Internal Revenue", "IRS")) @@
    (27 :> A("Alcohol, Tobacco and Firearms", "ATF")) @@
    (28 :> A("Judicial Administration", "DOJ")) @@
    (29 :> A("Labor", "DOL")) @@
    (30 :> A("Mineral Resources", "DOI")) @@
    (31 :> A("Money and Finance: Treasury", "TREAS")) @@
    (32 :> A("National Defense", "DOD")) @@
    (33 :> A("Navigation and Navigable Waters", "USCG")) @@
    (34 :> A("Education", "ED")) @@
    (36 :> A("Parks, Forests, and Public Property", "NPS")) @@
    (37 :> A("Patents, Trademarks, and Copyrights", "USPTO")) @@
    (38 :> A("Pensions, Bonuses, and Veterans' Relief", "VA")) @@
    (39 :> A("Postal Service", "USPS")) @@
    (40 :> A("Protection of Environment", "EPA")) @@
    (41 :> A("Public Contracts and Property Management", "GSA")) @@
    (42 :> A("Public Health", "HHS")) @@
    (43 :> A("Public Lands: Interior", "BLM")) @@
    (44 :> A("Emergency Management and Assistance", "FEMA")) @@
    (45 :> A("Public Welfare", "HHS")) @@
    (46 :> A("Shipping", "MARAD")) @@
    (47 :> A("Telecommunication", "FCC")) @@
    (48 :> A("Federal Acquisition Regulations System", "FAR")) @@
    (49 :> A("Transportation", "DOT")) @@
    (50 :> A("Wildlife and Fisheries", "FWS"))

\* the default of title_agency_map.get(title_num, {...})
FallbackAgencyDropsNumber(title_num) ==
    [name |-> "Unknown Agency", code |-> "UNKNOWN"]

FallbackAgency(title_num) ==
    [name |-> "Title " \o ToString(title_num) \o " Agency",
     code |-> "T" \o ToString(title_num)]

\* title_agency_map.get(title_num, fallback)
AgencyInfo(title_num) ==
    IF title_num \in DOMAIN title_agency_map
    THEN title_agency_map[title_num]
    ELSE FallbackAgency(title_num)

(***************************************************************************)
(* map_titles_to_agencies.  agency_data is the insertion-ordered dict of   *)
(* the source, kept as a sequence of records in insertion order.           *)
(***************************************************************************)
IndexOfCode(agency_data, code) ==
    IF \E i \in 1..Len(agency_data) : agency_data[i].code = code
    THEN CHOOSE i \in 1..Len(agency_data) : agency_data[i].code = code
    ELSE 0

TitleEntry(title_content) ==
    [title_number |-> title_content.title_number,
     title_name   |-> title_content.title_name,
     size_mb      |-> title_content.size_mb]

\* a variant that replaces the running total and the titles list
AddTitleOverwrites(agency_data, title_content) ==
    LET agency_info == AgencyInfo(title_content.title_number)
        i == IndexOfCode(agency_data, agency_info.code)
        fresh == [name |-> agency_info.name, code |-> agency_info.code,
                  regulation_size_mb |-> title_content.size_mb,
                  titles |-> <<TitleEntry(title_content)>>]
    IN  IF i = 0 THEN Append(agency_data, fresh)
        ELSE [agency_data EXCEPT ![i] = fresh]

\* one iteration of the loop over title_contents
AddTitle(agency_data, title_content) ==
    LET agency_info == AgencyInfo(title_content.title_number)
        i == IndexOfCode(agency_data, agency_info.code)
        withAgency ==
            IF i = 0
            THEN Append(agency_data,
                        [name |-> agency_info.name, code |-> agency_info.code,
                         regulation_size_mb |-> 0, titles |-> <<>>])
            ELSE agency_data
        j == IF i = 0 THEN Len(withAgency) ELSE i
    IN  [withAgency EXCEPT
            ![j].regulation_size_mb = @ + title_content.size_mb,
            ![j].titles = Append(@, TitleEntry(title_content))]

\* a variant in which agency_data is a dict that outlives the call
AgencyDataKept(left) == left

\* "agency_data = {}": every call starts from an empty dict of its own,
\* whatever the dict of an earlier call (left) holds
NewAgencyData(left) == <<>>

RECURSIVE AggregateByAgency(_, _)
AggregateByAgency(title_contents, agency_data) ==
    IF title_contents = <<>> THEN agency_data
    ELSE AggregateByAgency(Tail(title_contents),
                           AddTitle(agency_data, title_contents[1]))

\* round(data["regulation_size_mb"], 2): the total is the float sum of
\* the sizes of the agency's titles, added in the order of its titles list
RoundTotal(data) ==
    LET addends == [j \in 1..Len(data.titles) |-> data.titles[j].size_mb]
    IN  IF ExactSum(addends) = data.regulation_size_mb
        THEN RoundSum2(addends)
        ELSE Round2(data.regulation_size_mb)

\* "convert to list and round sizes": stamps[i] is the clock reading taken
\* for the i-th agency of the dict
RoundAndStamp(agency_data, stamps) ==
    [i \in 1..Len(agency_data) |->
        [name |-> agency_data[i].name,
         code |-> agency_data[i].code,
         regulation_size_mb |-> RoundTotal(agency_data[i]),
         titles |-> agency_data[i].titles,
         last_updated |-> stamps[i]]]

\* a variant of the sort that puts a record before the records of its size
RECURSIVE InsertDescUnstable(_, _)
InsertDescUnstable(sorted, a) ==
    IF sorted = <<>> THEN <<a>>
    ELSE IF sorted[1].regulation_size_mb > a.regulation_size_mb
         THEN <<sorted[1]>> \o InsertDescUnstable(Tail(sorted), a)
         ELSE <<a>> \o sorted

\* agencies.sort(key=regulation_size_mb, reverse=True): a stable sort
RECURSIVE InsertDesc(_, _)
InsertDesc(sorted, a) ==
    IF sorted = <<>> THEN <<a>>
    ELSE IF sorted[1].regulation_size_mb >= a.regulation_size_mb
         THEN <<sorted[1]>> \o InsertDesc(Tail(sorted), a)
         ELSE <<a>> \o sorted

RECURSIVE SortDesc(_, _)
SortDesc(agencies, acc) ==
    IF agencies = <<>> THEN acc
    ELSE SortDesc(Tail(agencies), InsertDesc(acc, agencies[1]))

\* the dict agency_data at the return of a call that finds the dict of
\* the call before as `left`: its values are the records returned, rounded
\* and stamped in place, in insertion order
AgencyDataAfter(title_contents, stamps, left) ==
    RoundAndStamp(AggregateByAgency(title_contents, NewAgencyData(left)),
                  stamps)

map_titles_to_agencies(title_contents, stamps) ==
    SortDesc(AgencyDataAfter(title_contents, stamps, <<>>), <<>>)

\* the number of records map_titles_to_agencies builds for an input
NumAgencies(title_contents) == Len(AggregateByAgency(title_contents, <<>>))

\* the clock readings of a synchronous block that reads the clock n times,
\* starting at time t, when the clock ticks once before the k-th reading
\* (k > n: no tick within the block)
Readings(t, n, k) == [i \in 1..n |-> IF i >= k THEN t + 1 ELSE t]

(***************************************************************************)
(* json.dump / json.load of the snapshot document.  A file's content is    *)
(* the sequence of chunks written so far; a dump interrupted by an error   *)
(* leaves a proper prefix of the chunks.                                   *)
(***************************************************************************)
NullAgency ==
    [name |-> "", code |-> "", regulation_size_mb |-> 0, titles |-> <<>>,
     last_updated |-> 0]

Chunk(k, a, n) == [key |-> k, agency |-> a, num |-> n]

ScalarKeys ==
    <<"total_agencies", "total_size_mb", "last_sync", "fetch_duration_seconds">>

\* json.dump(final_data, f, indent=2): the chunks in the order written
JsonDump(doc) ==
    <<Chunk("{", NullAgency, 0)>>
    \o [i \in 1..Len(doc.agencies) |-> Chunk("agency", doc.agencies[i], 0)]
    \o <<Chunk("total_agencies", NullAgency, doc.total_agencies),
         Chunk("total_size_mb", NullAgency, doc.total_size_mb),
         Chunk("last_sync", NullAgency, doc.last_sync),
         Chunk("fetch_duration_seconds", NullAgency,
               doc.fetch_duration_seconds),
         Chunk("}", NullAgency, 0)>>

WellFormedJson(content) ==
    LET n == Len(content)
    IN  /\ n >= 6
        /\ content[1].key = "{"
        /\ content[n].key = "}"
        /\ \A i \in 1..4 : content[n - 5 + i].key = ScalarKeys[i]
        /\ \A i \in 2..(n - 5) : content[i].key = "agency"

\* json.load(f): <<document>>, or <<>> when the decoder raises
JsonLoad(content) ==
    LET n == Len(content)
    IN  IF WellFormedJson(content)
        THEN <<[agencies |-> [i \in 1..(n - 6) |-> content[i + 1].agency],
                total_agencies |-> content[n - 4].num,
                total_size_mb |-> content[n - 3].num,
                last_sync |-> content[n - 2].num,
                fetch_duration_seconds |-> content[n - 1].num]>>
        ELSE <<>>

(***************************************************************************)
(* The file system: data/ and the two paths of fetcher.py.  files[p] is    *)
(* <<>> when p does not exist and <<content>> when it does.                *)
(***************************************************************************)
DATA_FILE == "data"
TEMP_FILE == "temp"
Paths == {DATA_FILE, TEMP_FILE}

Exists(fs, p) == fs[p] # <<>>

\* the path opened for writing in step 5 of fetch_and_update_data
WritePathCanonical == DATA_FILE

WritePath == TEMP_FILE

\* open(path, 'w'): creates or truncates
OpenW(fs, p) == [fs EXCEPT ![p] = << <<>> >>]

\* f.write(chunk) reaching the file
WriteTo(fs, p, chunk) == [fs EXCEPT ![p] = <<Append(@[1], chunk)>>]

\* a replace with its arguments swapped
ReplaceSwapped(fs) ==
    [fs EXCEPT ![TEMP_FILE] = fs[DATA_FILE], ![DATA_FILE] = <<>>]

\* os.replace(TEMP_FILE, DATA_FILE)
Replace(fs) == [fs EXCEPT ![DATA_FILE] = fs[TEMP_FILE], ![TEMP_FILE] = <<>>]

\* a cleanup that removes the wrong path
CleanupRemovesCanonical(fs, removeOk) ==
    IF Exists(fs, TEMP_FILE) /\ removeOk
    THEN [fs EXCEPT ![DATA_FILE] = <<>>, ![TEMP_FILE] = <<>>]
    ELSE fs

\* the except clause: remove TEMP_FILE if it exists, swallowing a failure
Cleanup(fs, removeOk) ==
    IF Exists(fs, TEMP_FILE) /\ removeOk
    THEN [fs EXCEPT ![TEMP_FILE] = <<>>]
    ELSE fs

\* a variant that makes a document of whatever the file holds
load_data_lenient(fs) ==
    IF ~Exists(fs, DATA_FILE) THEN <<>>
    ELSE IF WellFormedJson(fs[DATA_FILE][1]) THEN JsonLoad(fs[DATA_FILE][1])
    ELSE <<[agencies |-> <<>>, total_agencies |-> 0, total_size_mb |-> 0,
            last_sync |-> 0, fetch_duration_seconds |-> 0]>>

\* load_data of main.py: <<document>>, or <<>> for None
load_data(fs) ==
    IF ~Exists(fs, DATA_FILE) THEN <<>>
    ELSE JsonLoad(fs[DATA_FILE][1])

(***************************************************************************)
(* The remote API as seen by the fetcher: responses to the listing and to  *)
(* the content requests.                                                   *)
(***************************************************************************)
RECURSIVE SeqsUpTo(_, _)
SeqsUpTo(S, n) ==
    IF n = 0 THEN {<<>>}
    ELSE LET shorter == SeqsUpTo(S, n - 1)
         IN  shorter \cup {Append(s, x) : s \in shorter, x \in S}

\* the titles the remote API can list; number 0 stands for an entry whose
\* "number" is 0 or missing (title.get("number") is falsy)
RemoteTitles == <<[number |-> 0], [number |-> 40], [number |-> 99]>>

\* the subsequence of s at the positions of the set idx
RECURSIVE Pick(_, _, _)
Pick(s, idx, i) ==
    IF i > Len(s) THEN <<>>
    ELSE (IF i \in idx THEN <<s[i]>> ELSE <<>>) \o Pick(s, idx, i + 1)

\* the listings of at most MaxTitles of the remote titles, in their order
Listings ==
    {Pick(RemoteTitles, idx, 1) :
        idx \in {x \in SUBSET (1..Len(RemoteTitles)) :
                    Cardinality(x) <= MaxTitles}}

Resp(k, st, j) == [kind |-> k, status |-> st, json |-> j]

\* kind: "timeout", "error" (transport) or "http"; json: "ok", "malformed"
ListingFailures ==
    {Resp("timeout", 0, "ok"), Resp("error", 0, "ok"),
     Resp("http", 500, "ok"), Resp("http", 200, "malformed")}

\* fetch_title_structure on response resp whose body lists titles
fetch_title_structure(resp, titles) ==
    IF resp.kind # "http" THEN <<>>
    ELSE IF resp.status # 200 THEN <<>>
    ELSE IF resp.json # "ok" THEN <<>>
    ELSE titles

\* lengths of response bodies: 20 MB, and 6000 bytes (0.01 MB when rounded)
BodyLenLarge == 20 * BytesPerMb
BodyLenSmall == 6 * 1000

Body(k, st, j, len, t) ==
    [kind |-> k, status |-> st, json |-> j, len |-> len, title |-> t]

\* json: "dict" (title is "" when the key is absent), "not_dict", "malformed"
ContentResponses ==
    {Body("timeout", 0, "dict", 0, ""),
     Body("error", 0, "dict", 0, ""),
     Body("http", 500, "dict", BodyLenLarge, "Remote Title"),
     Body("http", 200, "malformed", BodyLenSmall, ""),
     Body("http", 200, "dict", BodyLenLarge, "Remote Title"),
     Body("http", 200, "dict", BodyLenSmall, "")}

\* fetch_title_content: <<record>>, or <<>> for None
fetch_title_content(title_number, resp) ==
    IF resp.kind # "http" THEN <<>>
    ELSE IF resp.status # 200 THEN <<>>
    ELSE IF resp.json # "dict" THEN <<>>
    ELSE <<[title_number |-> title_number,
            title_name |-> IF resp.title = ""
                           THEN "Title " \o ToString(title_number)
                           ELSE resp.title,
            size_mb |-> SizeMb(resp.len),
            size_bytes |-> resp.len]>>

\* a variant that starts a fetch for every listed title
RECURSIVE TaskNumbersAll(_)
TaskNumbersAll(titles) ==
    IF titles = <<>> THEN <<>>
    ELSE <<titles[1].number>> \o TaskNumbersAll(Tail(titles))

\* the tasks of fetch_all_title_contents: one per title with a truthy number
RECURSIVE TaskNumbers(_)
TaskNumbers(titles) ==
    IF titles = <<>> THEN <<>>
    ELSE (IF titles[1].number # 0 THEN <<titles[1].number>> ELSE <<>>)
         \o TaskNumbers(Tail(titles))

\* a variant where one failed fetch discards every result
RECURSIVE CollectResultsAllOrNothing(_, _)
CollectResultsAllOrNothing(tasks, responses) ==
    IF tasks = <<>> THEN <<>>
    ELSE IF fetch_title_content(tasks[1], responses[1]) = <<>> THEN <<>>
    ELSE IF Len(tasks) > 1
            /\ CollectResultsAllOrNothing(Tail(tasks), Tail(responses)) = <<>>
         THEN <<>>
         ELSE fetch_title_content(tasks[1], responses[1])
              \o CollectResultsAllOrNothing(Tail(tasks), Tail(responses))

\* the filter over the gathered results: the non-None results, in order
RECURSIVE CollectResults(_, _)
CollectResults(tasks, responses) ==
    IF tasks = <<>> THEN <<>>
    ELSE fetch_title_content(tasks[1], responses[1])
         \o CollectResults(Tail(tasks), Tail(responses))

\* fetch_all_title_contents, given the response to each task's request
fetch_all_title_contents(titles, responses) ==
    CollectResults(TaskNumbers(titles), responses)

\* a variant of step 4 that reports the size of the largest agency as the
\* total
BuildSnapshotTotalOfLargest(title_contents, start_time, readings) ==
    LET n == NumAgencies(title_contents)
        agencies == map_titles_to_agencies(title_contents, readings)
    IN  [agencies |-> agencies,
         total_agencies |-> Len(agencies),
         total_size_mb |-> Round2(agencies[1].regulation_size_mb),
         last_sync |-> readings[n + 1],
         fetch_duration_seconds |-> readings[n + 2] - start_time]

\* a variant that stamps the snapshot with the start of its cycle
BuildSnapshotStampedAtStart(title_contents, start_time, readings) ==
    LET n == NumAgencies(title_contents)
        agencies == map_titles_to_agencies(title_contents, readings)
        total == LET RECURSIVE Tot(_)
                     Tot(s) == IF s = <<>> THEN 0
                               ELSE s[1].regulation_size_mb + Tot(Tail(s))
                 IN  Tot(agencies)
    IN  [agencies |-> agencies,
         total_agencies |-> Len(agencies),
         total_size_mb |-> Round2(total),
         last_sync |-> start_time,
         fetch_duration_seconds |-> readings[n + 2] - start_time]

\* steps 3 and 4 of fetch_and_update_data: readings holds the clock
\* readings of the block (one per agency, then last_sync, then the
\* reading of fetch_duration_seconds)
BuildSnapshot(title_contents, start_time, readings) ==
    LET n == NumAgencies(title_contents)
        agencies == map_titles_to_agencies(title_contents, readings)
        total == LET RECURSIVE Tot(_)
                     Tot(s) == IF s = <<>> THEN 0
                               ELSE s[1].regulation_size_mb + Tot(Tail(s))
                 IN  Tot(agencies)
    IN  [agencies |-> agencies,
         total_agencies |-> Len(agencies),
         total_size_mb |-> Round2(total),
         last_sync |-> readings[n + 1],
         fetch_duration_seconds |-> readings[n + 2] - start_time]

(***************************************************************************)
(* State.                                                                  *)
(*   appPhase          position of lifespan() in main.py                   *)
(*   schedulerRunning  scheduler is not None and scheduler.running         *)
(*   cycle             the invocations of fetch_and_update_data: position  *)
(*                     (pc) and local variables of each coroutine; pc is   *)
(*                     "queued" for a background task that has been added  *)
(*                     and whose coroutine has not been entered            *)
(*   holder            the cycle that is executing a section without an    *)
(*                     await (it holds the event loop), 0 when none is     *)
(*   dirExists, files  the data/ directory and its two files               *)
(*   now               the clock                                           *)
(*   lastRead          what the last call of load_data returned, and       *)
(*                     whether a cycle was writing at that moment          *)
(*   lastOutcome       the last line a cycle logged before returning       *)
(*   cleanupFailed     os.remove(TEMP_FILE) raised in the last cleanup     *)
(*   aggIn, aggTick, aggOut, aggPc                                         *)
(*                     argument, clock behaviour and result of a direct    *)
(*                     call of map_titles_to_agencies                      *)
(*   aggPrev           the result of the call before, once the call has    *)
(*                     been repeated on the same argument                  *)
(*   aggData           the dict agency_data as the last call of            *)
(*                     map_titles_to_agencies left it                      *)
(*   callee, callArg, callOut                                              *)
(*                     a direct call of one function or request handler:   *)
(*                     its name, its argument and, once it has returned    *)
(*                     or raised, what came out of it                      *)
(*   fan               one fan-out of fetch_all_title_contents seen from   *)
(*                     its connection pool: how many of its requests wait  *)
(*                     for a connection, are in flight or are over, and    *)
(*                     the seconds since asyncio.gather started them       *)
(*   sched             the module of scheduler.py called directly: its     *)
(*                     global `scheduler` (0 for None, else the number of  *)
(*                     the object) and every AsyncIOScheduler object       *)
(*                     created so far, with its running flag and its jobs  *)
(***************************************************************************)
VARIABLES appPhase, schedulerRunning, cycle, holder, dirExists, files, now,
          lastRead, lastOutcome, cleanupFailed, aggIn, aggTick, aggOut, aggPc,
          aggPrev, aggData, callee, callArg, callOut, fan, sched

sysVars == <<appPhase, schedulerRunning, cycle, holder, dirExists, files,
             now, lastRead, lastOutcome, cleanupFailed>>
aggVars == <<aggIn, aggTick, aggOut, aggPc, aggPrev, aggData>>
callVars == <<callee, callArg, callOut>>
fanVars == <<fan>>
schedVars == <<sched>>
harnessVars == <<aggIn, aggTick, aggOut, aggPc, aggPrev, aggData, callee,
                 callArg, callOut, fan, sched>>
vars == <<appPhase, schedulerRunning, cycle, holder, dirExists, files, now,
          lastRead, lastOutcome, cleanupFailed, aggIn, aggTick, aggOut,
          aggPc, aggPrev, aggData, callee, callArg, callOut, fan, sched>>

Cycles == 1..MaxCycles

IdleCycle ==
    [pc |-> "idle", trigger |-> "none", start_time |-> 0,
     titles |-> <<>>, responses |-> <<>>, title_contents |-> <<>>,
     final_data |-> <<>>]

\* fetch_and_update_data has been entered and has not returned
Running(c) == cycle[c].pc \notin {"idle", "queued"}

RunningCycles == {c \in Cycles : Running(c)}

\* the snapshot the store held before this program started
PrevContents ==
    fetch_title_content(32, Body("http", 200, "dict", BodyLenLarge,
                                 "Remote Title"))

PrevSnapshot == BuildSnapshot(PrevContents, 0, <<0, 0, 0>>)

NoFiles == [p \in Paths |-> <<>>]

SysInit ==
    /\ appPhase = "init"
    /\ schedulerRunning = FALSE
    /\ cycle = [c \in Cycles |-> IdleCycle]
    /\ holder = 0
    /\ \E d \in BOOLEAN, f \in {NoFiles,
                                [NoFiles EXCEPT
                                    ![DATA_FILE] = <<JsonDump(PrevSnapshot)>>]} :
          /\ Exists(f, DATA_FILE) => d
          /\ dirExists = d
          /\ files = f
    /\ now = 0
    /\ lastRead = [read |-> FALSE, found |-> FALSE, complete |-> FALSE,
                   during_write |-> FALSE]
    /\ lastOutcome = "none"
    /\ cleanupFailed = FALSE

AggIdle ==
    /\ aggIn = <<>>
    /\ aggTick = 1
    /\ aggOut = <<>>
    /\ aggPc = "unused"
    /\ aggPrev = <<>>
    /\ aggData = <<>>

CallIdle ==
    /\ callee = "none"
    /\ callArg = <<>>
    /\ callOut = <<>>

NoFanOut ==
    [pc |-> "unused", tasks |-> 0, queued |-> 0, inflight |-> 0, ok |-> 0,
     failed |-> 0, timed_out |-> 0, starved |-> 0, elapsed |-> 0]

FanIdle == fan = NoFanOut

NoScheduler == [scheduler |-> 0, objects |-> <<>>]

SchedIdle == sched = NoScheduler

Init == SysInit /\ AggIdle /\ CallIdle /\ FanIdle /\ SchedIdle

(***************************************************************************)
(* Triggers.  slots is the set of coroutine slots the trigger may use.     *)
(***************************************************************************)
FreeSlots(slots) == {c \in slots : cycle[c].pc = "idle"}

FirstFree(slots) ==
    CHOOSE c \in FreeSlots(slots) : \A d \in FreeSlots(slots) : c <= d

\* the coroutine fetch_and_update_data is entered: it reads start_time and
\* runs to its first await (fetch_title_structure)
Begin(c, trig) ==
    cycle' = [cycle EXCEPT ![c] =
                 [IdleCycle EXCEPT !.pc = "listing", !.trigger = trig,
                                   !.start_time = now]]

\* background_tasks.add_task(fetch_and_update_data): the task is recorded
\* and not yet entered
AddTask(c) ==
    cycle' = [cycle EXCEPT ![c] =
                 [IdleCycle EXCEPT !.pc = "queued", !.trigger = "manual"]]

\* refresh_data adds the task unconditionally
ManualTriggerAllowed == TRUE

\* max_instances=1 of the scheduled job: counts the instances the
\* scheduler itself has started
TimerTriggerAllowed ==
    ~\E c \in Cycles : Running(c) /\ cycle[c].trigger = "timer"

\* lifespan() up to its first await or its yield
Startup ==
    /\ appPhase = "init"
    /\ holder = 0
    /\ schedulerRunning' = TRUE
    /\ IF ~Exists(files, DATA_FILE)
       THEN /\ Begin(1, "startup")
            /\ appPhase' = "startup_fetch"
       ELSE /\ appPhase' = "serving"
            /\ UNCHANGED cycle
    /\ UNCHANGED <<holder, dirExists, files, now, lastRead, lastOutcome,
                   cleanupFailed>>
    /\ UNCHANGED harnessVars

\* POST /api/refresh: refresh_data adds the task and returns its response;
\* slots bounds the number of invocations that exist at a time
PostRefresh(slots) ==
    /\ appPhase = "serving"
    /\ holder = 0
    /\ ManualTriggerAllowed
    /\ FreeSlots(slots) # {}
    /\ AddTask(FirstFree(slots))
    /\ UNCHANGED <<appPhase, schedulerRunning, holder, dirExists, files, now,
                   lastRead, lastOutcome, cleanupFailed>>
    /\ UNCHANGED harnessVars

\* the response has been sent and the framework runs the background task:
\* fetch_and_update_data is entered
TaskStart(c) ==
    /\ holder = 0
    /\ cycle[c].pc = "queued"
    /\ Begin(c, cycle[c].trigger)
    /\ UNCHANGED <<appPhase, schedulerRunning, holder, dirExists, files, now,
                   lastRead, lastOutcome, cleanupFailed>>
    /\ UNCHANGED harnessVars

\* the cron trigger of the job 'daily_data_update' fires
TimerFire(slots) ==
    /\ schedulerRunning
    /\ holder = 0
    /\ TimerTriggerAllowed
    /\ FreeSlots(slots) # {}
    /\ Begin(FirstFree(slots), "timer")
    /\ UNCHANGED <<appPhase, schedulerRunning, holder, dirExists, files, now,
                   lastRead, lastOutcome, cleanupFailed>>
    /\ UNCHANGED harnessVars

\* lifespan() after its yield: stop_scheduler(); the invocations of
\* fetch_and_update_data that exist are left as they are
Shutdown ==
    /\ appPhase = "serving"
    /\ holder = 0
    /\ appPhase' = "stopped"
    /\ schedulerRunning' = FALSE
    /\ UNCHANGED <<cycle, holder, dirExists, files, now, lastRead,
                   lastOutcome, cleanupFailed>>
    /\ UNCHANGED harnessVars

\* after lifespan() has returned the server closes the event loop, at a
\* moment the source does not decide: the invocations still waiting at an
\* await are cancelled there (CancelledError is not an Exception, so the
\* except clause does not run); until then they run on
LoopCloses ==
    /\ appPhase = "stopped"
    /\ holder = 0
    /\ \E c \in Cycles : cycle[c].pc # "idle"
    /\ cycle' = [c \in Cycles |-> IdleCycle]
    /\ UNCHANGED <<appPhase, schedulerRunning, holder, dirExists, files, now,
                   lastRead, lastOutcome, cleanupFailed>>
    /\ UNCHANGED harnessVars

(***************************************************************************)
(* fetch_and_update_data, one action per stretch between two awaits; the   *)
(* stretch after the fan-out is further cut at each visible change of the  *)
(* file system, and keeps the event loop until the coroutine returns.      *)
(***************************************************************************)
Alive == appPhase \in {"startup_fetch", "serving", "stopped"}

\* a variant in which the error of a failed cycle leaves the coroutine and
\* ends the serving process
EndCrashes(c, out) ==
    /\ cycle' = [cycle EXCEPT ![c] = IdleCycle]
    /\ holder' = 0
    /\ lastOutcome' = out
    /\ appPhase' = IF out # "Published" THEN "stopped"
                   ELSE IF cycle[c].trigger = "startup" THEN "serving"
                   ELSE appPhase

\* the coroutine returns: lifespan() resumes if it was awaiting it
\* a variant in which the coroutine never returns
EndStaysRunning(c, out) ==
    /\ cycle' = cycle
    /\ holder' = 0
    /\ lastOutcome' = out
    /\ appPhase' = appPhase

End(c, out) ==
    /\ cycle' = [cycle EXCEPT ![c] = IdleCycle]
    /\ holder' = 0
    /\ lastOutcome' = out
    /\ appPhase' = IF cycle[c].trigger = "startup" THEN "serving"
                   ELSE appPhase

\* a variant without the check of step 1
AfterListingNoCheck(titles) == "fetching"

\* "if not titles: return"
AfterListing(titles) == IF titles = <<>> THEN "NoTitles" ELSE "fetching"

\* a variant without the check of step 2
AfterFanOutNoCheck(title_contents) == "build"

\* "if not title_contents: return"
AfterFanOut(title_contents) ==
    IF title_contents = <<>> THEN "NoContent" ELSE "build"

OkListing == Resp("http", 200, "ok")

\* step 1: fetch_title_structure returns; bodies is the set of listings
\* the remote API may answer with
ListTitlesReturn(c, bodies) ==
    /\ Alive
    /\ holder = 0
    /\ cycle[c].pc = "listing"
    /\ \E resp \in ListingFailures \cup {OkListing} :
       \E body \in IF resp = OkListing THEN bodies
                   ELSE {<<[number |-> 40]>>} :
          LET titles == fetch_title_structure(resp, body)
          IN  IF AfterListing(titles) = "NoTitles"
              THEN End(c, "NoTitles")
              ELSE /\ cycle' = [cycle EXCEPT ![c].pc = "fetching",
                                             ![c].titles = titles]
                   /\ UNCHANGED <<appPhase, holder, lastOutcome>>
    /\ UNCHANGED <<schedulerRunning, dirExists, files, now, lastRead,
                   cleanupFailed>>
    /\ UNCHANGED harnessVars

\* step 2: fetch_all_title_contents returns; answers is the set of
\* responses the remote API may give to a content request
FanOutReturn(c, answers) ==
    /\ Alive
    /\ holder = 0
    /\ cycle[c].pc = "fetching"
    /\ \E rs \in [1..Len(TaskNumbers(cycle[c].titles)) -> answers] :
          cycle' = [cycle EXCEPT
                      ![c].pc = "collected",
                      ![c].responses = rs,
                      ![c].title_contents =
                          fetch_all_title_contents(cycle[c].titles, rs)]
    /\ holder' = c
    /\ UNCHANGED <<appPhase, schedulerRunning, dirExists, files, now,
                   lastRead, lastOutcome, cleanupFailed>>
    /\ UNCHANGED harnessVars

\* the except clause of fetch_and_update_data, then the return
Fail(c, removeOk) ==
    /\ files' = Cleanup(files, removeOk)
    /\ cleanupFailed' = IF Exists(files, TEMP_FILE) THEN ~removeOk
                        ELSE cleanupFailed
    /\ End(c, "WriteFailed")

\* the readings of a clock that is read n times, starts at t and does not
\* pass top
ClockReadings(t, n, top) ==
    {r \in [1..n -> t..top] : \A i \in 1..(n - 1) : r[i] <= r[i + 1]}

\* steps 3 to 5 up to the open of the file: abort, or aggregate, build the
\* document, create the directory and open the file for writing; removals
\* is the set of outcomes os.remove may have in the cleanup (TRUE: removed)
\* mkdirOk is FALSE when map_titles_to_agencies, the build of final_data or
\* os.makedirs raises: each leaves the directory as it is and enters the
\* except clause.  The block reads the clock once per agency, once for
\* last_sync and once for fetch_duration_seconds; the clock may advance
\* between two readings, up to horizon
BuildAndOpen(c, removals, horizon) ==
    /\ Alive
    /\ holder = c
    /\ cycle[c].pc = "collected"
    /\ IF AfterFanOut(cycle[c].title_contents) = "NoContent"
       THEN /\ End(c, "NoContent")
            /\ UNCHANGED <<dirExists, files, cleanupFailed, now>>
       ELSE LET n == NumAgencies(cycle[c].title_contents) IN
            \E mkdirOk \in BOOLEAN, openOk \in BOOLEAN, removeOk \in removals,
               readings \in ClockReadings(now, n + 2, horizon) :
               /\ now' = readings[n + 2]
               /\ dirExists' = (dirExists \/ mkdirOk)
               /\ IF mkdirOk /\ openOk
                  THEN /\ removeOk
                       /\ cycle' = [cycle EXCEPT
                              ![c].pc = "writing",
                              ![c].responses = <<>>,
                              ![c].final_data =
                                  <<BuildSnapshot(cycle[c].title_contents,
                                                  cycle[c].start_time,
                                                  readings)>>]
                       /\ files' = OpenW(files, WritePath)
                       /\ cleanupFailed' =
                             IF WritePath = TEMP_FILE THEN FALSE
                             ELSE cleanupFailed
                       /\ UNCHANGED <<appPhase, holder, lastOutcome>>
                  ELSE /\ mkdirOk \/ ~openOk
                       /\ Fail(c, removeOk)
    /\ UNCHANGED <<schedulerRunning, lastRead>>
    /\ UNCHANGED harnessVars

Written(c) == Len(files[WritePath][1])

\* json.dump: the next chunk reaches the file, or the write raises
WriteChunk(c, removals) ==
    /\ Alive
    /\ holder = c
    /\ cycle[c].pc = "writing"
    /\ Written(c) < Len(JsonDump(cycle[c].final_data[1]))
    /\ \E writeOk \in BOOLEAN, removeOk \in removals :
          IF writeOk
          THEN /\ removeOk
               /\ files' = WriteTo(files, WritePath,
                                   JsonDump(cycle[c].final_data[1])
                                       [Written(c) + 1])
               /\ UNCHANGED <<appPhase, cycle, holder, lastOutcome,
                              cleanupFailed>>
          ELSE Fail(c, removeOk)
    /\ UNCHANGED <<schedulerRunning, dirExists, now, lastRead>>
    /\ UNCHANGED harnessVars

\* step 6: os.replace(TEMP_FILE, DATA_FILE), or it raises
ReplaceStep(c, removals) ==
    /\ Alive
    /\ holder = c
    /\ cycle[c].pc = "writing"
    /\ Written(c) = Len(JsonDump(cycle[c].final_data[1]))
    /\ \E replaceOk \in BOOLEAN, removeOk \in removals :
          IF replaceOk /\ Exists(files, TEMP_FILE)
          THEN /\ removeOk
               /\ files' = Replace(files)
               /\ End(c, "Published")
               /\ UNCHANGED cleanupFailed
          ELSE /\ ~replaceOk \/ removeOk
               /\ Fail(c, removeOk)
    /\ UNCHANGED <<schedulerRunning, dirExists, now, lastRead>>
    /\ UNCHANGED harnessVars

(***************************************************************************)
(* Readers and the clock.                                                  *)
(***************************************************************************)
SnapshotKeys ==
    {"agencies", "total_agencies", "total_size_mb", "last_sync",
     "fetch_duration_seconds"}

\* a document with every top-level field and its whole agencies list
IsCompleteSnapshot(doc) ==
    /\ DOMAIN doc = SnapshotKeys
    /\ doc.total_agencies = Len(doc.agencies)

\* a request handler, or any other process, calls load_data()
ReadSnapshot ==
    /\ LET data == load_data(files)
       IN  lastRead' = [read |-> TRUE,
                        found |-> data # <<>>,
                        complete |-> data # <<>> /\ IsCompleteSnapshot(data[1]),
                        during_write |-> holder # 0
                                         /\ cycle[holder].pc = "writing"]
    /\ lastRead' # lastRead
    /\ UNCHANGED <<appPhase, schedulerRunning, cycle, holder, dirExists,
                   files, now, lastOutcome, cleanupFailed>>
    /\ UNCHANGED harnessVars

Tick ==
    /\ now < MaxClock
    /\ now' = now + 1
    /\ UNCHANGED <<appPhase, schedulerRunning, cycle, holder, dirExists,
                   files, lastRead, lastOutcome, cleanupFailed>>
    /\ UNCHANGED harnessVars

(***************************************************************************)
(* Spec: the whole service, with up to MaxCycles overlapping cycles and    *)
(* every failure of the file system; the remote API lists one title and    *)
(* the clock stands still.                                                 *)
(***************************************************************************)
OneTitleListings == {<<>>, <<[number |-> 40]>>}

FewAnswers ==
    {Body("timeout", 0, "dict", 0, ""),
     Body("http", 200, "dict", BodyLenSmall, ""),
     Body("http", 200, "dict", BodyLenLarge, "Remote Title")}

Next ==
    \/ Startup
    \/ PostRefresh(Cycles)
    \/ \E c \in Cycles : TaskStart(c)
    \/ TimerFire(Cycles)
    \/ Shutdown
    \/ LoopCloses
    \/ \E c \in Cycles : ListTitlesReturn(c, OneTitleListings)
    \/ \E c \in Cycles : FanOutReturn(c, FewAnswers)
    \/ \E c \in Cycles : BuildAndOpen(c, BOOLEAN, now)
    \/ \E c \in Cycles : WriteChunk(c, BOOLEAN)
    \/ \E c \in Cycles : ReplaceStep(c, BOOLEAN)
    \/ ReadSnapshot

Spec == Init /\ [][Next]_vars

(***************************************************************************)
(* SpecCycle: one cycle after the other, with every listing, every         *)
(* combination of responses and a running clock; the cleanup's os.remove   *)
(* succeeds.                                                               *)
(***************************************************************************)
NextCycle ==
    \/ Startup
    \/ PostRefresh({1})
    \/ TaskStart(1)
    \/ TimerFire({1})
    \/ ListTitlesReturn(1, Listings)
    \/ FanOutReturn(1, ContentResponses)
    \/ BuildAndOpen(1, {TRUE}, MaxClock)
    \/ WriteChunk(1, {TRUE})
    \/ ReplaceStep(1, {TRUE})
    \/ Tick

SpecCycle == Init /\ [][NextCycle]_vars

(***************************************************************************)
(* SpecAgg: direct calls of map_titles_to_agencies on bounded inputs.      *)
(***************************************************************************)
AggTitleNumbers == {20, 29, 40, 99}
AggSizes == {20000, 25000}

\* 0.001 and 0.004: their sum, alone or with other sizes, lies halfway
\* between two hundredths
AggSmallSizes == {1, 4}

AggTitleSizes ==
    {[title_number |-> n, title_name |-> "Part", size_mb |-> s] :
        n \in AggTitleNumbers, s \in AggSizes}
    \cup {[title_number |-> 20, title_name |-> "Part", size_mb |-> s] :
             s \in AggSmallSizes}

AggInputs == SeqsUpTo(AggTitleSizes, MaxAggLen)

AggInit ==
    /\ SysInit
    /\ dirExists = FALSE
    /\ aggIn \in AggInputs
    /\ aggTick \in 1..(NumAgencies(aggIn) + 1)
    /\ aggOut = <<>>
    /\ aggPc = "input"
    /\ aggPrev = <<>>
    /\ aggData = <<>>
    /\ CallIdle
    /\ FanIdle
    /\ SchedIdle

\* the list title_contents after a call: the loop reads each element with
\* .get() and builds every titles entry as a new dict, and nothing assigns
\* to the list or to an element of it
ArgumentAfter(title_contents) == title_contents

\* a call of map_titles_to_agencies(aggIn): the dict it builds, the sorted
\* list of the dict's values it returns, and its argument after the call
AggRun ==
    /\ aggPc = "input"
    /\ aggData' = AgencyDataAfter(
                      aggIn, Readings(0, NumAgencies(aggIn), aggTick),
                      aggData)
    /\ aggOut' = SortDesc(aggData', <<>>)
    /\ aggIn' = ArgumentAfter(aggIn)
    /\ aggPc' = "done"
    /\ UNCHANGED <<aggTick, aggPrev>>
    /\ UNCHANGED sysVars
    /\ UNCHANGED callVars
    /\ UNCHANGED fanVars
    /\ UNCHANGED schedVars

\* a second call, at a later time, on the argument as the first call left
\* it, in the process in which the first call ran
AggRerun ==
    /\ aggPc = "done"
    /\ aggPrev = <<>>
    /\ \E k \in 1..(NumAgencies(aggIn) + 1) :
          /\ aggData' = AgencyDataAfter(
                            aggIn, Readings(1, NumAgencies(aggIn), k),
                            aggData)
          /\ aggTick' = k
    /\ aggOut' = SortDesc(aggData', <<>>)
    /\ aggIn' = ArgumentAfter(aggIn)
    /\ aggPrev' = <<aggOut>>
    /\ UNCHANGED aggPc
    /\ UNCHANGED sysVars
    /\ UNCHANGED callVars
    /\ UNCHANGED fanVars
    /\ UNCHANGED schedVars

AggNext == AggRun \/ AggRerun

SpecAgg == AggInit /\ [][AggNext]_vars

(***************************************************************************)
(* SpecFetch: direct calls of fetch_title_structure and                    *)
(* fetch_title_content.  What happens inside the try block is the          *)
(* exception it raises ("none": it reaches a return); the except clauses   *)
(* decide whether the exception leaves the function.                       *)
(***************************************************************************)
\* the classes of the exceptions the two try blocks can raise, each with
\* its base classes
ExceptionBases ==
    [e \in {"TimeoutError", "ClientError", "ContentTypeError",
            "JSONDecodeError", "AttributeError", "TypeError"} |->
        {e, "Exception"}]

\* an exception of class exc is caught by one of the except clauses
Caught(exc, handlers) == ExceptionBases[exc] \cap handlers # {}

\* a variant of fetch_title_structure with the first except clause only
ListingHandlersTimeoutOnly == {"TimeoutError"}

\* "except asyncio.TimeoutError" and "except Exception"
ListingHandlers == {"TimeoutError", "Exception"}

\* a variant of fetch_title_content without its last except clause
ContentHandlersNoCatchAll == {"JSONDecodeError", "TimeoutError"}

\* "except json.JSONDecodeError", "except asyncio.TimeoutError" and
\* "except Exception"
ContentHandlers == {"JSONDecodeError", "TimeoutError", "Exception"}

\* the answers to the listing request; json: "ok", "malformed" (not JSON),
\* "not_dict" (JSON, not an object), "titles_null" ("titles" is null)
ListingResponses ==
    ListingFailures
    \cup {OkListing, Resp("http", 404, "ok"), Resp("http", 200, "not_dict"),
          Resp("http", 200, "titles_null")}

\* the exception raised inside the try block of fetch_title_structure
ListingException(resp) ==
    IF resp.kind = "timeout" THEN "TimeoutError"
    ELSE IF resp.kind = "error" THEN "ClientError"
    ELSE IF resp.status # 200 THEN "none"
    ELSE IF resp.json = "malformed" THEN "ContentTypeError"
    ELSE IF resp.json = "not_dict" THEN "AttributeError"
    ELSE IF resp.json = "titles_null" THEN "TypeError"
    ELSE "none"

\* the answers to a content request
ContentAnswers ==
    ContentResponses
    \cup {Body("http", 404, "dict", BodyLenSmall, ""),
          Body("http", 200, "not_dict", BodyLenSmall, "")}

\* the exception raised inside the try blocks of fetch_title_content
ContentException(resp) ==
    IF resp.kind = "timeout" THEN "TimeoutError"
    ELSE IF resp.kind = "error" THEN "ClientError"
    ELSE IF resp.status # 200 THEN "none"
    ELSE IF resp.json = "malformed" THEN "JSONDecodeError"
    ELSE IF resp.json = "not_dict" THEN "AttributeError"
    ELSE "none"

\* what a call gives its caller: the value returned, or the exception
\* that no except clause has caught
Outcome(exc, handlers, value) ==
    IF exc # "none" /\ ~Caught(exc, handlers)
    THEN [raised |-> exc, value |-> <<>>]
    ELSE [raised |-> "none", value |-> value]

FetchTitleNumbers == {40, 99}

FetchInit ==
    /\ SysInit
    /\ dirExists = FALSE
    /\ AggIdle
    /\ FanIdle
    /\ SchedIdle
    /\ callOut = <<>>
    /\ \/ /\ callee = "fetch_title_structure"
          /\ callArg \in [resp : ListingResponses, body : Listings]
       \/ /\ callee = "fetch_title_content"
          /\ callArg \in [title_number : FetchTitleNumbers,
                          resp : ContentAnswers]

CallFetchTitleStructure ==
    /\ callee = "fetch_title_structure"
    /\ callOut = <<>>
    /\ callOut' = <<Outcome(ListingException(callArg.resp), ListingHandlers,
                            fetch_title_structure(callArg.resp,
                                                  callArg.body))>>
    /\ UNCHANGED <<callee, callArg>>
    /\ UNCHANGED sysVars
    /\ UNCHANGED aggVars
    /\ UNCHANGED fanVars
    /\ UNCHANGED schedVars

CallFetchTitleContent ==
    /\ callee = "fetch_title_content"
    /\ callOut = <<>>
    /\ callOut' = <<Outcome(ContentException(callArg.resp), ContentHandlers,
                            fetch_title_content(callArg.title_number,
                                                callArg.resp))>>
    /\ UNCHANGED <<callee, callArg>>
    /\ UNCHANGED sysVars
    /\ UNCHANGED aggVars
    /\ UNCHANGED fanVars
    /\ UNCHANGED schedVars

FetchNext == CallFetchTitleStructure \/ CallFetchTitleContent

SpecFetch == FetchInit /\ [][FetchNext]_vars

(***************************************************************************)
(* SpecApi: the read endpoints of main.py, called on every store a cycle   *)
(* can leave behind.  A response is its status code and its JSON body.     *)
(***************************************************************************)
\* the handler registered with @app.exception_handler(404)
not_found_handler(detail, path) ==
    [status |-> 404,
     body |-> [error |-> "Not Found", message |-> detail, path |-> path]]

\* the response to "raise HTTPException(status_code, detail)": handlers are
\* registered for 404 and 500 only, every other status is answered by the
\* framework's default handler with the body {"detail": detail}
HttpExceptionResponse(status_code, detail, path) ==
    IF status_code = 404 THEN not_found_handler(detail, path)
    ELSE [status |-> status_code, body |-> [detail |-> detail]]

\* the agency codes requested
ApiCodes ==
    {"EPA", "epa", "Epa", "ePA", "DOL", "dol", "Dol", "T99", "t99", "XYZ"}

\* a variant of the comparison that takes the codes as they are
ExactCode(s) == s

\* the string s with each character that table maps replaced by its image
RECURSIVE MapChars(_, _)
MapChars(s, table) ==
    IF Len(s) = 0 THEN ""
    ELSE LET ch == SubSeq(s, 1, 1)
         IN  (IF ch \in DOMAIN table THEN table[ch] ELSE ch)
                 \o MapChars(Tail(s), table)

\* the upper-case form of each lower-case letter; the strings compared
\* are ASCII, and str.upper() leaves every other ASCII character as it is
UpperCase ==
    ("a" :> "A") @@ ("b" :> "B") @@ ("c" :> "C") @@ ("d" :> "D") @@
    ("e" :> "E") @@ ("f" :> "F") @@ ("g" :> "G") @@ ("h" :> "H") @@
    ("i" :> "I") @@ ("j" :> "J") @@ ("k" :> "K") @@ ("l" :> "L") @@
    ("m" :> "M") @@ ("n" :> "N") @@ ("o" :> "O") @@ ("p" :> "P") @@
    ("q" :> "Q") @@ ("r" :> "R") @@ ("s" :> "S") @@ ("t" :> "T") @@
    ("u" :> "U") @@ ("v" :> "V") @@ ("w" :> "W") @@ ("x" :> "X") @@
    ("y" :> "Y") @@ ("z" :> "Z")

\* str.upper()
upper(s) == MapChars(s, UpperCase)

\* a variant of GET /health that refuses to answer without a snapshot
health_check_unavailable(fs, t) ==
    LET data == load_data(fs)
    IN  IF data = <<>>
        THEN HttpExceptionResponse(503, "Data not available", "/health")
        ELSE [status |-> 200,
              body |-> [status |-> "healthy", version |-> "1.0.0",
                        last_data_update |-> <<data[1].last_sync>>,
                        timestamp |-> t]]

\* GET /health at time t; None is the empty sequence
health_check(fs, t) ==
    LET data == load_data(fs)
    IN  [status |-> 200,
         body |-> [status |-> IF data # <<>> THEN "healthy" ELSE "degraded",
                   version |-> "1.0.0",
                   last_data_update |-> IF data # <<>>
                                        THEN <<data[1].last_sync>>
                                        ELSE <<>>,
                   timestamp |-> t]]

\* GET /api/agencies
get_agencies(fs) ==
    LET data == load_data(fs)
    IN  IF data = <<>>
        THEN HttpExceptionResponse(
                 503,
                 "Data not available. Initial data fetch may be in progress.",
                 "/api/agencies")
        ELSE [status |-> 200, body |-> data[1]]

\* GET /api/agencies/{agency_code}: next(...) takes the first match
get_agency(fs, agency_code) ==
    LET data == load_data(fs)
        path == "/api/agencies/" \o agency_code
    IN  IF data = <<>>
        THEN HttpExceptionResponse(503, "Data not available", path)
        ELSE LET agencies == data[1].agencies
                 hits == {i \in 1..Len(agencies) :
                             upper(agencies[i].code) = upper(agency_code)}
             IN  IF hits = {}
                 THEN HttpExceptionResponse(
                          404,
                          "Agency with code '" \o agency_code
                              \o "' not found",
                          path)
                 ELSE [status |-> 200,
                       body |-> agencies[CHOOSE i \in hits :
                                            \A j \in hits : i <= j]]

\* max(agencies, key=regulation_size_mb): the first of the largest
FirstLargest(agencies) ==
    agencies[CHOOSE i \in 1..Len(agencies) :
                \A j \in 1..Len(agencies) :
                    /\ agencies[j].regulation_size_mb
                       <= agencies[i].regulation_size_mb
                    /\ j < i => agencies[j].regulation_size_mb
                                < agencies[i].regulation_size_mb]

\* min(agencies, key=regulation_size_mb): the first of the smallest
FirstSmallest(agencies) ==
    agencies[CHOOSE i \in 1..Len(agencies) :
                \A j \in 1..Len(agencies) :
                    /\ agencies[j].regulation_size_mb
                       >= agencies[i].regulation_size_mb
                    /\ j < i => agencies[j].regulation_size_mb
                                > agencies[i].regulation_size_mb]

\* a variant of GET /api/stats that takes the largest agency for the
\* smallest as well
get_statistics_smallest_by_max(fs) ==
    LET data == load_data(fs)
    IN  IF data = <<>>
        THEN HttpExceptionResponse(503, "Data not available", "/api/stats")
        ELSE LET agencies == data[1].agencies
             IN  [status |-> 200,
                  body |->
                    [total_agencies |-> Len(agencies),
                     total_size_mb |-> data[1].total_size_mb,
                     largest_agency |-> <<FirstLargest(agencies)>>,
                     smallest_agency |-> <<FirstLargest(agencies)>>,
                     average_size_mb |->
                         10 * RoundDiv(data[1].total_size_mb,
                                       10 * Len(agencies)),
                     last_sync |-> data[1].last_sync]]

\* GET /api/stats
get_statistics(fs) ==
    LET data == load_data(fs)
    IN  IF data = <<>>
        THEN HttpExceptionResponse(503, "Data not available", "/api/stats")
        ELSE LET agencies == data[1].agencies
             IN  [status |-> 200,
                  body |->
                    [total_agencies |-> Len(agencies),
                     total_size_mb |-> data[1].total_size_mb,
                     largest_agency |->
                         IF agencies # <<>>
                         THEN <<FirstLargest(agencies)>> ELSE <<>>,
                     smallest_agency |->
                         IF agencies # <<>>
                         THEN <<FirstSmallest(agencies)>> ELSE <<>>,
                     average_size_mb |->
                         IF agencies # <<>>
                         THEN RoundQuot2(data[1].total_size_mb,
                                         Len(agencies))
                         ELSE 0,
                     last_sync |-> data[1].last_sync]]

\* the results of fetch_all_title_contents behind the stored snapshots
ApiTitleSizes ==
    {[title_number |-> n, title_name |-> "Part", size_mb |-> sz] :
        n \in {20, 40, 99}, sz \in {5000, 20000, 25000}}

ApiContents == SeqsUpTo(ApiTitleSizes, MaxAggLen) \ {<<>>}

\* the stores: no file, or the snapshot a cycle has published
ApiStores ==
    {NoFiles}
    \cup {[NoFiles EXCEPT ![DATA_FILE] =
              <<JsonDump(BuildSnapshot(
                    tc, 0,
                    Readings(0, NumAgencies(tc) + 2, NumAgencies(tc) + 3)))>>] :
             tc \in ApiContents}

\* stores whose canonical file exists but is not a JSON document: a
\* document cut short at any chunk (the empty file included), and one that
\* lost its first chunk
CorruptStores ==
    LET whole == JsonDump(PrevSnapshot)
    IN  {[NoFiles EXCEPT ![DATA_FILE] = <<SubSeq(whole, 1, n)>>] :
            n \in 0..(Len(whole) - 1)}
        \cup {[NoFiles EXCEPT ![DATA_FILE] = <<Tail(whole)>>]}

ApiInit ==
    /\ appPhase = "serving"
    /\ schedulerRunning = TRUE
    /\ cycle = [c \in Cycles |-> IdleCycle]
    /\ holder = 0
    /\ files \in ApiStores \cup CorruptStores
    /\ dirExists = Exists(files, DATA_FILE)
    /\ now = MaxClock
    /\ lastRead = [read |-> FALSE, found |-> FALSE, complete |-> FALSE,
                   during_write |-> FALSE]
    /\ lastOutcome = IF Exists(files, DATA_FILE) THEN "Published"
                     ELSE "NoTitles"
    /\ cleanupFailed = FALSE
    /\ AggIdle
    /\ FanIdle
    /\ SchedIdle
    /\ callOut = <<>>
    /\ \/ /\ callee \in {"health_check", "get_agencies", "get_statistics"}
          /\ callArg = <<>>
       \/ /\ callee = "get_agency"
          /\ callArg \in ApiCodes

Answer(response) ==
    /\ callOut = <<>>
    /\ callOut' = <<response>>
    /\ UNCHANGED <<callee, callArg>>
    /\ UNCHANGED sysVars
    /\ UNCHANGED aggVars
    /\ UNCHANGED fanVars
    /\ UNCHANGED schedVars

CallHealthCheck ==
    callee = "health_check" /\ Answer(health_check(files, now))

CallGetAgencies ==
    callee = "get_agencies" /\ Answer(get_agencies(files))

CallGetAgency ==
    callee = "get_agency" /\ Answer(get_agency(files, callArg))

CallGetStatistics ==
    callee = "get_statistics" /\ Answer(get_statistics(files))

ApiNext ==
    \/ CallHealthCheck
    \/ CallGetAgencies
    \/ CallGetAgency
    \/ CallGetStatistics

SpecApi == ApiInit /\ [][ApiNext]_vars

(***************************************************************************)
(* SpecRefresh: POST /api/refresh answered while cycles run.  callee,      *)
(* callArg and callOut hold the last request: the number of cycles that    *)
(* were running when it arrived and the response it got.                   *)
(***************************************************************************)
\* a variant that answers differently while a cycle is running
refresh_data_busy(t) ==
    [status |-> 200,
     body |-> [message |-> "Data refresh triggered",
               status |-> IF RunningCycles = {} THEN "processing"
                          ELSE "busy",
               timestamp |-> t]]

\* the response of refresh_data, read at clock reading t
refresh_data(t) ==
    [status |-> 200,
     body |-> [message |-> "Data refresh triggered",
               status |-> "processing",
               timestamp |-> t]]

\* POST /api/refresh: the handler adds the task and returns its response
CallRefreshData(slots) ==
    /\ appPhase = "serving"
    /\ holder = 0
    /\ ManualTriggerAllowed
    /\ FreeSlots(slots) # {}
    /\ AddTask(FirstFree(slots))
    /\ callee' = "refresh_data"
    /\ callArg' = Cardinality(RunningCycles)
    /\ callOut' = <<refresh_data(now)>>
    /\ UNCHANGED <<appPhase, schedulerRunning, holder, dirExists, files, now,
                   lastRead, lastOutcome, cleanupFailed>>
    /\ UNCHANGED aggVars
    /\ UNCHANGED fanVars
    /\ UNCHANGED schedVars

NextRefresh ==
    \/ Startup
    \/ CallRefreshData(Cycles)
    \/ \E c \in Cycles : TaskStart(c)
    \/ \E c \in Cycles : ListTitlesReturn(c, OneTitleListings)
    \/ \E c \in Cycles : FanOutReturn(c, FewAnswers)
    \/ \E c \in Cycles : BuildAndOpen(c, BOOLEAN, now)
    \/ \E c \in Cycles : WriteChunk(c, BOOLEAN)
    \/ \E c \in Cycles : ReplaceStep(c, BOOLEAN)

SpecRefresh == Init /\ [][NextRefresh]_vars

(***************************************************************************)
(* The scheduler's status.  schedulerRunning stands for                    *)
(* "scheduler is not None and scheduler.running".                          *)
(***************************************************************************)
\* the job start_scheduler adds; its next run is the next 02:00 UTC, of
\* which the date is left out
ScheduledJobs ==
    <<[id |-> "daily_data_update",
       name |-> "Daily eCFR data update",
       next_run_time |-> [hour |-> 2, minute |-> 0],
       trigger |-> "cron[hour='2', minute='0']"]>>

\* a variant that never looks at the scheduler
get_scheduler_status_always_running ==
    [running |-> TRUE, jobs |-> ScheduledJobs]

get_scheduler_status ==
    IF ~schedulerRunning
    THEN [running |-> FALSE, jobs |-> <<>>]
    ELSE [running |-> TRUE, jobs |-> ScheduledJobs]

(***************************************************************************)
(* SpecFanOut: one fan-out of fetch_all_title_contents seen from its       *)
(* connection pool.  asyncio.gather starts every request at once; each     *)
(* request first waits for one of the connector's connections and gives    *)
(* it back when it is over.  The requests are told apart only by where     *)
(* they are, so the state counts them.  Time is in seconds and passes      *)
(* FanStep seconds at a time.                                              *)
(***************************************************************************)
FanStep == 3 * 10

\* aiohttp: a timeout passed to session.get replaces the session's timeout
\* for that request; request is <<>> when session.get is given none
RequestTimeout(request, session) ==
    IF request # <<>> THEN request[1] ELSE session

\* the total timeout of each content request; its timer starts when the
\* request is made, before the wait for a connection
RealTimeout == RequestTimeout(<<PerCallTimeout>>, SessionTimeout)

\* a variant of the connector without a limit
ConnectionAlwaysFree == TRUE

\* TCPConnector(limit=10)
ConnectionFree == fan.inflight < ConnectorLimit

FanUnfinished == fan.queued + fan.inflight

FanInit ==
    /\ SysInit
    /\ dirExists = FALSE
    /\ AggIdle
    /\ CallIdle
    /\ SchedIdle
    /\ \E n \in 1..MaxFanOut :
          fan = [NoFanOut EXCEPT !.pc = "gathering", !.tasks = n,
                                 !.queued = n]

FanStays ==
    /\ UNCHANGED sysVars
    /\ UNCHANGED aggVars
    /\ UNCHANGED callVars
    /\ UNCHANGED schedVars

\* a waiting request takes a connection and is sent
Connect ==
    /\ fan.pc = "gathering"
    /\ fan.elapsed < RealTimeout
    /\ fan.queued > 0
    /\ ConnectionFree
    /\ fan' = [fan EXCEPT !.queued = @ - 1, !.inflight = @ + 1]
    /\ FanStays

\* a request in flight is answered: fetch_title_content returns a record
\* (ok) or None
Respond(ok) ==
    /\ fan.pc = "gathering"
    /\ fan.elapsed < RealTimeout
    /\ fan.inflight > 0
    /\ fan' = IF ok
              THEN [fan EXCEPT !.inflight = @ - 1, !.ok = @ + 1]
              ELSE [fan EXCEPT !.inflight = @ - 1, !.failed = @ + 1]
    /\ FanStays

\* time passes; a free connection is taken at once by a waiting request
FanClock ==
    /\ fan.pc = "gathering"
    /\ FanUnfinished > 0
    /\ fan.elapsed < RealTimeout
    /\ fan.queued = 0 \/ ~ConnectionFree
    /\ fan' = [fan EXCEPT !.elapsed = @ + FanStep]
    /\ FanStays

\* a variant in which the TimeoutError of a request is not caught and
\* ends the fan-out without a result
TimeoutInFlightRaises ==
    /\ fan.pc = "gathering"
    /\ fan.elapsed >= RealTimeout
    /\ fan.inflight > 0
    /\ fan' = [fan EXCEPT !.pc = "raised"]
    /\ FanStays

\* the timer of a request in flight fires: asyncio.TimeoutError, caught,
\* fetch_title_content returns None
TimeoutInFlight ==
    /\ fan.pc = "gathering"
    /\ fan.elapsed >= RealTimeout
    /\ fan.inflight > 0
    /\ fan' = [fan EXCEPT !.inflight = @ - 1, !.timed_out = @ + 1]
    /\ FanStays

\* the timer of a request still waiting for a connection fires
TimeoutQueued ==
    /\ fan.pc = "gathering"
    /\ fan.elapsed >= RealTimeout
    /\ fan.queued > 0
    /\ fan' = [fan EXCEPT !.queued = @ - 1, !.starved = @ + 1]
    /\ FanStays

\* asyncio.gather returns; the records are kept, None is filtered out
GatherReturns ==
    /\ fan.pc = "gathering"
    /\ FanUnfinished = 0
    /\ fan' = [fan EXCEPT !.pc = "returned"]
    /\ FanStays

FanNext ==
    \/ Connect
    \/ \E ok \in BOOLEAN : Respond(ok)
    \/ FanClock
    \/ TimeoutInFlight
    \/ TimeoutQueued
    \/ GatherReturns

SpecFanOut == FanInit /\ [][FanNext]_vars

(***************************************************************************)
(* SpecLive: overlapping cycles under the scheduling of the event loop;    *)
(* the cleanup's os.remove succeeds.                                       *)
(* A network call that is awaited returns or times out, and the event      *)
(* loop resumes the coroutines that are ready in turn: a coroutine that    *)
(* waits for the loop while others hold it again and again is entered or   *)
(* resumed (strong fairness).  A coroutine that holds the loop runs on to  *)
(* its next await or its return (weak fairness).                           *)
(***************************************************************************)
\* the next step of coroutine c while it waits for the event loop: it is
\* entered, or resumed after its await
Resume(c) ==
    \/ TaskStart(c)
    \/ ListTitlesReturn(c, OneTitleListings)
    \/ FanOutReturn(c, FewAnswers)

\* the next step of the coroutine that holds the event loop
RunOn ==
    \E c \in Cycles : \/ BuildAndOpen(c, {TRUE}, now)
                      \/ WriteChunk(c, {TRUE})
                      \/ ReplaceStep(c, {TRUE})

Fairness ==
    /\ \A c \in Cycles : SF_vars(Resume(c))
    /\ WF_vars(RunOn)

NextLive ==
    \/ Startup
    \/ PostRefresh(Cycles)
    \/ \E c \in Cycles : TaskStart(c)
    \/ TimerFire(Cycles)
    \/ \E c \in Cycles : ListTitlesReturn(c, OneTitleListings)
    \/ \E c \in Cycles : FanOutReturn(c, FewAnswers)
    \/ \E c \in Cycles : BuildAndOpen(c, {TRUE}, now)
    \/ \E c \in Cycles : WriteChunk(c, {TRUE})
    \/ \E c \in Cycles : ReplaceStep(c, {TRUE})

SpecLive == Init /\ [][NextLive]_vars /\ Fairness

(***************************************************************************)
(* SpecOrder: overlapping cycles under a running clock; the cleanup's      *)
(* os.remove succeeds.                                                     *)
(***************************************************************************)
\* a content request times out or is answered with the title's document
OrderAnswers ==
    {Body("timeout", 0, "dict", 0, ""),
     Body("http", 200, "dict", BodyLenLarge, "Remote Title")}

NextOrder ==
    \/ Startup
    \/ PostRefresh(Cycles)
    \/ \E c \in Cycles : TaskStart(c)
    \/ TimerFire(Cycles)
    \/ \E c \in Cycles : ListTitlesReturn(c, OneTitleListings)
    \/ \E c \in Cycles : FanOutReturn(c, OrderAnswers)
    \/ \E c \in Cycles : BuildAndOpen(c, {TRUE}, MaxClock)
    \/ \E c \in Cycles : WriteChunk(c, {TRUE})
    \/ \E c \in Cycles : ReplaceStep(c, {TRUE})
    \/ Tick

SpecOrder == Init /\ [][NextOrder]_vars

(***************************************************************************)
(* SpecSched: start_scheduler and stop_scheduler called directly, in any   *)
(* order, at most MaxCalls times.  callArg holds the calls made so far.    *)
(***************************************************************************)
\* "scheduler is not None and scheduler.running"
IsRunning(s) == s.scheduler # 0 /\ s.objects[s.scheduler].running

\* AsyncIOScheduler(), add_job(...), start()
NewScheduler(s) ==
    [scheduler |-> Len(s.objects) + 1,
     objects |-> Append(s.objects,
                        [running |-> TRUE, jobs |-> ScheduledJobs])]

\* a variant without the check "already running"
start_scheduler_unchecked(s) == NewScheduler(s)

start_scheduler(s) ==
    IF IsRunning(s) THEN s ELSE NewScheduler(s)

stop_scheduler(s) ==
    IF IsRunning(s)
    THEN [scheduler |-> 0,
          objects |-> [s.objects EXCEPT ![s.scheduler].running = FALSE]]
    ELSE s

SchedInit ==
    /\ SysInit
    /\ dirExists = FALSE
    /\ AggIdle
    /\ FanIdle
    /\ SchedIdle
    /\ callee = "scheduler"
    /\ callArg = <<>>
    /\ callOut = <<>>

SchedCall(name, after) ==
    /\ callee = "scheduler"
    /\ Len(callArg) < MaxCalls
    /\ sched' = after
    /\ callArg' = Append(callArg, name)
    /\ schedulerRunning' = IsRunning(after)
    /\ UNCHANGED <<callee, callOut>>
    /\ UNCHANGED <<appPhase, cycle, holder, dirExists, files, now, lastRead,
                   lastOutcome, cleanupFailed>>
    /\ UNCHANGED aggVars
    /\ UNCHANGED fanVars

CallStartScheduler == SchedCall("start_scheduler", start_scheduler(sched))

CallStopScheduler == SchedCall("stop_scheduler", stop_scheduler(sched))

SchedNext == CallStartScheduler \/ CallStopScheduler

SpecSched == SchedInit /\ [][SchedNext]_vars

(***************************************************************************)
(* fetcher_fixed.py, the alternative fetcher.  It is not imported by the   *)
(* application; SpecFixed calls its fetch_and_update_data directly.        *)
(***************************************************************************)
\* title_agency_map of calculate_agency_sizes
fixed_title_agency_map ==
    (1 :> "General Provisions") @@
    (2 :> "Grants and Agreements") @@
    (3 :> "The President") @@
    (4 :> "Accounts") @@
    (5 :> "Administrative Personnel") @@
    (6 :> "Domestic Security") @@
    (7 :> "Agriculture") @@
    (8 :> "Aliens and Nationality") @@
    (9 :> "Animals and Animal Products") @@
    (10 :> "Energy") @@
    (11 :> "Federal Elections") @@
    (12 :> "Banks and Banking") @@
    (13 :> "Business Credit") @@
    (14 :> "Aeronautics and Space") @@
    (15 :> "Commerce and Foreign Trade") @@
    (16 :> "Commercial Practices") @@
    (17 :> "Commodity and Securities Exchanges") @@
    (18 :> "Conservation of Power") @@
    (19 :> "Customs Duties") @@
    (20 :> "Employees' Benefits") @@
    (21 :> "Food and Drugs") @@
    (22 :> "Foreign Relations") @@
    (23 :> "Highways") @@
    (24 :> "Housing and Urban Development") @@
    (25 :> "Indians") @@
    (26 :> "Internal Revenue") @@
    (27 :> "Alcohol, Tobacco and Firearms") @@
    (28 :> "Judicial Administration") @@
    (29 :> "Labor") @@
    (30 :> "Mineral Resources") @@
    (31 :> "Money and Finance: Treasury") @@
    (32 :> "National Defense") @@
    (33 :> "Navigation and Navigable Waters") @@
    (34 :> "Education") @@
    (36 :> "Parks, Forests, and Public Property") @@
    (37 :> "Patents, Trademarks, and Copyrights") @@
    (38 :> "Pensions, Bonuses, and Veterans' Relief") @@
    (39 :> "Postal Service") @@
    (40 :> "Protection of Environment") @@
    (41 :> "Public Contracts and Property Management") @@
    (42 :> "Public Health") @@
    (43 :> "Public Lands: Interior") @@
    (44 :> "Emergency Management") @@
    (45 :> "Public Welfare") @@
    (46 :> "Shipping") @@
    (47 :> "Telecommunication") @@
    (48 :> "Federal Acquisition Regulations") @@
    (49 :> "Transportation") @@
    (50 :> "Wildlife and Fisheries")

\* agency_name.upper().replace(" ", "_").replace(":", "")[:10]
fixed_agency_code(agency_name) ==
    LET replaced == MapChars(MapChars(upper(agency_name), " " :> "_"),
                             ":" :> "")
    IN  SubSeq(replaced, 1, IF Len(replaced) < 10 THEN Len(replaced) ELSE 10)

\* title_agency_map.get(title_num, f"Title {title_num}") and its code
fixed_agency(title_num) ==
    LET agency_name == IF title_num \in DOMAIN fixed_title_agency_map
                       THEN fixed_title_agency_map[title_num]
                       ELSE "Title " \o ToString(title_num)
    IN  [name |-> agency_name, code |-> fixed_agency_code(agency_name)]

\* the answers to a size request: kind "timeout", "error" or "http"
SizeResponses ==
    {[kind |-> "timeout", status |-> 0, len |-> 0],
     [kind |-> "error", status |-> 0, len |-> 0],
     [kind |-> "http", status |-> 500, len |-> BodyLenLarge],
     [kind |-> "http", status |-> 200, len |-> BodyLenLarge],
     [kind |-> "http", status |-> 200, len |-> BodyLenSmall]}

\* fetch_title_size: round(len(content) / (1024 * 1024), 2), and 0.0 for a
\* status other than 200, a timeout and any other exception
fetch_title_size(title_number, resp) ==
    IF resp.kind # "http" THEN 0
    ELSE IF resp.status # 200 THEN 0
    ELSE SizeMb(resp.len)

\* the first loop: one fetch per title with a truthy number
RECURSIVE fixed_tasks(_)
fixed_tasks(titles) ==
    IF titles = <<>> THEN <<>>
    ELSE (IF titles[1].number # 0 THEN <<titles[1].number>> ELSE <<>>)
         \o fixed_tasks(Tail(titles))

\* asyncio.gather(*tasks): the result of each task, in the order of tasks
fixed_sizes(tasks, responses) ==
    [k \in 1..Len(tasks) |-> fetch_title_size(tasks[k], responses[k])]

\* title_sizes[title_num] = size on the insertion-ordered dict title_sizes
SetSize(title_sizes, title_num, size) ==
    IF \E j \in 1..Len(title_sizes) : title_sizes[j].title_num = title_num
    THEN [j \in 1..Len(title_sizes) |->
            IF title_sizes[j].title_num = title_num
            THEN [title_num |-> title_num, size_mb |-> size]
            ELSE title_sizes[j]]
    ELSE Append(title_sizes, [title_num |-> title_num, size_mb |-> size])

\* "Map results": for i, title in enumerate(titles), title i is given
\* sizes[i] when its number is truthy and i < len(sizes); every result is
\* a float because fetch_title_size catches every exception
RECURSIVE MapResults(_, _, _, _)
MapResults(titles, sizes, i, title_sizes) ==
    IF i > Len(titles) THEN title_sizes
    ELSE MapResults(titles, sizes, i + 1,
            IF titles[i].number # 0 /\ i <= Len(sizes)
            THEN SetSize(title_sizes, titles[i].number, sizes[i])
            ELSE title_sizes)

fixed_title_sizes(titles, responses) ==
    MapResults(titles, fixed_sizes(fixed_tasks(titles), responses), 1, <<>>)

\* one iteration of "Aggregate by agency using the mapping"
FixedAddTitle(agency_data, item) ==
    LET agency == fixed_agency(item.title_num)
        i == IndexOfCode(agency_data, agency.code)
        withAgency ==
            IF i = 0
            THEN Append(agency_data,
                        [name |-> agency.name, code |-> agency.code,
                         regulation_size_mb |-> 0, titles |-> <<>>])
            ELSE agency_data
        j == IF i = 0 THEN Len(withAgency) ELSE i
    IN  [withAgency EXCEPT
            ![j].regulation_size_mb = @ + item.size_mb,
            ![j].titles = Append(@, [title_number |-> item.title_num,
                                     size_mb |-> item.size_mb])]

RECURSIVE FixedAggregate(_, _)
FixedAggregate(title_sizes, agency_data) ==
    IF title_sizes = <<>> THEN agency_data
    ELSE FixedAggregate(Tail(title_sizes),
                        FixedAddTitle(agency_data, title_sizes[1]))

\* "Convert to list": the rounded size and the clock reading of each
\* record; stamps[i] is the reading taken for the i-th agency of the dict
FixedConvert(agency_data, stamps) ==
    [i \in 1..Len(agency_data) |->
        [name |-> agency_data[i].name,
         code |-> agency_data[i].code,
         regulation_size_mb |-> RoundTotal(agency_data[i]),
         titles |-> agency_data[i].titles,
         last_updated |-> stamps[i]]]

\* the number of records calculate_agency_sizes builds
FixedNumAgencies(listing, titles, responses) ==
    IF listing.kind # "http" \/ listing.status # 200 \/ listing.json # "ok"
    THEN 0
    ELSE Len(FixedAggregate(fixed_title_sizes(titles, responses), <<>>))

\* calculate_agency_sizes, given the answer to the listing request, the
\* titles it lists and the answer to each size request; its argument
\* agencies is not used by the source
calculate_agency_sizes(listing, titles, responses, stamps) ==
    IF listing.kind # "http" THEN <<>>
    ELSE IF listing.status # 200 THEN <<>>
    ELSE IF listing.json # "ok" THEN <<>>
    ELSE SortDesc(FixedConvert(FixedAggregate(
                      fixed_title_sizes(titles, responses), <<>>), stamps),
                  <<>>)

\* "Create final data structure" of fetcher_fixed.fetch_and_update_data;
\* readings: the clock read for last_sync and for fetch_duration_seconds
FixedFinalData(agencies, start_time, readings) ==
    LET total == LET RECURSIVE Tot(_)
                     Tot(s) == IF s = <<>> THEN 0
                               ELSE s[1].regulation_size_mb + Tot(Tail(s))
                 IN  Tot(agencies)
    IN  [agencies |-> agencies,
         total_agencies |-> Len(agencies),
         total_size_mb |-> Round2(total),
         last_sync |-> readings[1],
         fetch_duration_seconds |-> readings[2] - start_time]

\* the listings of at most MaxListed entries; number 0 stands for an entry
\* whose "number" is 0 or missing, and 12345 is a number whose derived
\* agency code is longer than 10 characters before it is cut
FixedListings ==
    SeqsUpTo({[number |-> 0], [number |-> 40], [number |-> 99],
              [number |-> 12345]}, MaxListed)

\* what the remote API answers during one run: the listing and, when the
\* listing arrives, one answer per size request
FixedInputs ==
    {[listing |-> Resp("http", 200, "ok"), titles |-> t, responses |-> r] :
        t \in FixedListings, r \in SeqsUpTo(SizeResponses, MaxListed)}
    \cup {[listing |-> f, titles |-> <<>>, responses |-> <<>>] :
            f \in ListingFailures}

FixedInit ==
    /\ SysInit
    /\ AggIdle
    /\ FanIdle
    /\ SchedIdle
    /\ callee = "fetcher_fixed"
    /\ callArg \in {x \in FixedInputs :
                     Len(x.responses) = Len(fixed_tasks(x.titles))}
    /\ callOut = [pc |-> "start", start_time |-> 0, agencies |-> <<>>,
                  outcome |-> "none"]

FixedStays ==
    /\ UNCHANGED <<callee, callArg>>
    /\ UNCHANGED <<appPhase, schedulerRunning, cycle, holder, lastRead,
                   lastOutcome, cleanupFailed>>
    /\ UNCHANGED aggVars
    /\ UNCHANGED fanVars
    /\ UNCHANGED schedVars

\* fetch_and_update_data is entered: it reads start_time and runs to its
\* first await, of fetch_agencies_list
FixedEnter ==
    /\ callee = "fetcher_fixed"
    /\ callOut.pc = "start"
    /\ callOut' = [callOut EXCEPT !.pc = "agencies", !.start_time = now]
    /\ UNCHANGED <<dirExists, files, now>>
    /\ FixedStays

\* fetch_agencies_list returns; its result is only tested for a log
\* message.  The clock may have advanced while the call was awaited
FixedAgenciesReturn ==
    /\ callee = "fetcher_fixed"
    /\ callOut.pc = "agencies"
    /\ \E agencies_list \in {<<>>, <<"agency">>} :
          callOut' = [callOut EXCEPT !.pc = "listed"]
    /\ now' \in now..MaxClock
    /\ UNCHANGED <<dirExists, files>>
    /\ FixedStays

\* calculate_agency_sizes returns; "if not agencies: return".  The clock
\* may have advanced while the call was awaited; it is read once per
\* record and may advance between two readings
FixedCalculateReturn ==
    /\ callee = "fetcher_fixed"
    /\ callOut.pc = "listed"
    /\ LET n == FixedNumAgencies(callArg.listing, callArg.titles,
                                 callArg.responses)
       IN  \E stamps \in ClockReadings(now, n, MaxClock) :
              LET agencies == calculate_agency_sizes(callArg.listing,
                                  callArg.titles, callArg.responses, stamps)
              IN  /\ IF n = 0 THEN now' \in now..MaxClock
                     ELSE now' = stamps[n]
                  /\ callOut' =
                        IF agencies = <<>>
                        THEN [callOut EXCEPT !.pc = "done",
                                             !.outcome = "Aborted"]
                        ELSE [callOut EXCEPT !.pc = "calculated",
                                             !.agencies = agencies]
    /\ UNCHANGED <<dirExists, files>>
    /\ FixedStays

\* makedirs, open, json.dump and os.replace, which run without an await;
\* each may raise, and json.dump may raise after any number of chunks; the
\* except clause removes TEMP_FILE if it exists
FixedWrite ==
    /\ callee = "fetcher_fixed"
    /\ callOut.pc = "calculated"
    /\ \E readings \in ClockReadings(now, 2, MaxClock) :
       LET dump == JsonDump(FixedFinalData(callOut.agencies,
                                           callOut.start_time, readings))
       IN  \E mkdirOk \in BOOLEAN, openOk \in BOOLEAN,
              written \in 0..Len(dump), replaceOk \in BOOLEAN,
              removeOk \in BOOLEAN :
              LET opened == OpenW(files, TEMP_FILE)
                  dumped == [opened EXCEPT
                                ![TEMP_FILE] = <<SubSeq(dump, 1, written)>>]
              IN  /\ now' = readings[2]
                  /\ dirExists' = (dirExists \/ mkdirOk)
                  /\ IF ~mkdirOk
                     THEN /\ files' = Cleanup(files, removeOk)
                          /\ callOut' = [callOut EXCEPT !.pc = "done",
                                            !.outcome = "WriteFailed"]
                     ELSE IF ~openOk
                     THEN /\ files' = Cleanup(files, removeOk)
                          /\ callOut' = [callOut EXCEPT !.pc = "done",
                                            !.outcome = "WriteFailed"]
                     ELSE IF written < Len(dump) \/ ~replaceOk
                     THEN /\ files' = Cleanup(dumped, removeOk)
                          /\ callOut' = [callOut EXCEPT !.pc = "done",
                                            !.outcome = "WriteFailed"]
                     ELSE /\ files' = Replace(dumped)
                          /\ callOut' = [callOut EXCEPT !.pc = "done",
                                            !.outcome = "Published"]
    /\ FixedStays

FixedNext ==
    \/ FixedEnter
    \/ FixedAgenciesReturn
    \/ FixedCalculateReturn
    \/ FixedWrite

SpecFixed == FixedInit /\ [][FixedNext]_vars

(***************************************************************************)
(* Properties.                                                             *)
(***************************************************************************)
Current == load_data(files)

WritingCycle == holder # 0 /\ cycle[holder].pc = "writing"

\* the response of a content request is a success
Succeeds(resp) ==
    resp.kind = "http" /\ resp.status = 200 /\ resp.json = "dict"

\* every step a cycle takes out of position p
CycleLeaves(c, p) == cycle[c].pc = p /\ cycle'[c].pc # p

StoreUnchanged == files' = files /\ dirExists' = dirExists

\* a step leaves the readable snapshot as it was, or replaces it by the
\* whole document of the cycle that is writing
C1_PrevOrNew ==
    \/ load_data(files') = load_data(files)
    \/ /\ WritingCycle
       /\ load_data(files') = cycle[holder].final_data
       /\ IsCompleteSnapshot(load_data(files')[1])

\* C1: at every point, also while a cycle writes and renames, a reader that
\* loads the current snapshot gets a whole document: each step leaves the
\* readable snapshot as it was or replaces it by the whole document of the
\* cycle that is publishing, and no read ever returns a partial document.
C1_AtomicVisibility ==
    /\ [](Current # <<>> => IsCompleteSnapshot(Current[1]))
    /\ [](lastRead.found => lastRead.complete)
    /\ [][C1_PrevOrNew]_vars

\* a read that found the previous snapshot while a cycle had written a part
\* of the temporary file
C1_Witness ==
    /\ WritingCycle
    /\ Exists(files, TEMP_FILE)
    /\ Len(files[TEMP_FILE][1]) \in 1..(Len(JsonDump(cycle[holder].final_data[1])) - 1)
    /\ lastRead.read /\ lastRead.during_write
    /\ lastRead.found /\ lastRead.complete
    /\ Current # cycle[holder].final_data

\* C2: at most one refresh cycle is running at any time, whatever the
\* trigger.
C2_AtMostOneRunning == Cardinality(RunningCycles) <= 1

\* a cycle leaves step 1 with a listing that is not empty, or returns
\* without touching the store
C3_EmptyListingStep ==
    \A c \in Cycles :
        CycleLeaves(c, "listing") =>
            \/ cycle'[c].pc = "fetching" /\ cycle'[c].titles # <<>>
            \/ /\ cycle'[c].pc = "idle"
               /\ lastOutcome' = "NoTitles"
               /\ StoreUnchanged

\* C3: a cycle whose title listing is empty goes no further than step 1: it
\* returns logging "no titles" and leaves the directory and both files as
\* they were.
C3_NoTitlesAbort ==
    /\ [](\A c \in Cycles : Running(c) /\ cycle[c].pc # "listing"
                              => cycle[c].titles # <<>>)
    /\ [][C3_EmptyListingStep]_vars

\* a cycle has aborted on an empty listing and the store still holds the
\* snapshot it held before
C3_Witness ==
    /\ lastOutcome = "NoTitles"
    /\ RunningCycles = {}
    /\ Current = <<PrevSnapshot>>

\* a cycle whose fetches all failed returns without touching the store
C4_NoContentStep ==
    \A c \in Cycles :
        (/\ CycleLeaves(c, "collected")
         /\ cycle[c].titles # <<>>
         /\ \A i \in 1..Len(cycle[c].responses) :
               ~Succeeds(cycle[c].responses[i]))
        => /\ cycle'[c].pc = "idle"
           /\ lastOutcome' = "NoContent"
           /\ StoreUnchanged

\* C4: when the listing is not empty and no content fetch succeeded, the
\* cycle returns logging "no content" without touching the directory or
\* the files.
C4_NoContentAbort == [][C4_NoContentStep]_vars

\* a cycle has aborted because every fetch failed, and the snapshot of an
\* earlier cycle is still the current one
C4_Witness ==
    /\ lastOutcome = "NoContent"
    /\ RunningCycles = {}
    /\ Current # <<>>
    /\ Current # <<PrevSnapshot>>

\* the numbers of the tasks whose response is a success, in task order
RECURSIVE SuccessfulTitles(_, _)
SuccessfulTitles(tasks, responses) ==
    IF tasks = <<>> THEN <<>>
    ELSE (IF Succeeds(responses[1]) THEN <<tasks[1]>> ELSE <<>>)
         \o SuccessfulTitles(Tail(tasks), Tail(responses))

\* the title numbers of every titles entry of a document, as a bag
RECURSIVE CountTitle(_, _)
CountTitle(s, n) ==
    IF s = <<>> THEN 0
    ELSE (IF s[1].title_number = n THEN 1 ELSE 0) + CountTitle(Tail(s), n)

RECURSIVE CountInAgencies(_, _)
CountInAgencies(agencies, n) ==
    IF agencies = <<>> THEN 0
    ELSE CountTitle(agencies[1].titles, n) + CountInAgencies(Tail(agencies), n)

\* the results kept after the fan-out are the successful fetches, in order
C5_CollectedExactly ==
    \A c \in Cycles :
        cycle[c].pc = "collected" =>
            [i \in 1..Len(cycle[c].title_contents) |->
                cycle[c].title_contents[i].title_number]
            = SuccessfulTitles(TaskNumbers(cycle[c].titles),
                               cycle[c].responses)

\* the document built holds each fetched title exactly as often as fetched
C5_BuiltExactly ==
    \A c \in Cycles :
        cycle[c].pc = "writing" =>
            /\ cycle[c].title_contents # <<>>
            /\ \A n \in {RemoteTitles[i].number : i \in 1..Len(RemoteTitles)} :
                  CountInAgencies(cycle[c].final_data[1].agencies, n)
                  = CountTitle(cycle[c].title_contents, n)

\* with a result to publish the cycle goes on to write, and what a
\* successful rename publishes is the document built
C5_Step ==
    \A c \in Cycles :
        /\ (CycleLeaves(c, "collected") /\ cycle[c].title_contents # <<>>)
              => \/ cycle'[c].pc = "writing"
                 \/ cycle'[c].pc = "idle" /\ lastOutcome' = "WriteFailed"
        /\ (CycleLeaves(c, "writing") /\ lastOutcome' = "Published")
              => load_data(files') = cycle[c].final_data

\* C5: whichever content fetches fail, the results kept are exactly the
\* successful fetches; with at least one of them the cycle does not abort,
\* the document it builds holds exactly these titles, and the document it
\* publishes is that document.
C5_PartialFailureTolerated ==
    /\ [](C5_CollectedExactly /\ C5_BuiltExactly)
    /\ [][C5_Step]_vars

\* a cycle that listed two titles, lost one of the two fetches and is about
\* to rename the document built from the other
C5_Witness ==
    /\ cycle[1].pc = "writing"
    /\ Len(TaskNumbers(cycle[1].titles)) = 2
    /\ Len(cycle[1].title_contents) = 1
    /\ files[TEMP_FILE] = <<JsonDump(cycle[1].final_data[1])>>

\* only the successful rename changes the canonical file during a write
C6_Step ==
    (holder # 0 /\ ~(holder' = 0 /\ lastOutcome' = "Published"))
        => files'[DATA_FILE] = files[DATA_FILE]

\* C6: a cycle never changes the canonical file except by its successful
\* rename: when creating the directory, writing the temporary file or the
\* rename fails, the canonical file is as it was and the cycle returns
\* logging the failure.
C6_WriteFailureLeavesCanonical ==
    /\ [][C6_Step]_vars
    /\ [][\A c \in Cycles :
            (CycleLeaves(c, "writing") /\ cycle'[c].pc = "idle")
                => lastOutcome' \in {"Published", "WriteFailed"}]_vars

\* a cycle has failed in its write step and the previous snapshot is intact
C6_Witness ==
    /\ lastOutcome = "WriteFailed"
    /\ holder = 0
    /\ dirExists
    /\ Current = <<PrevSnapshot>>

\* C7: the temporary file exists only between the start of a cycle's
\* write and the rename or cleanup of that same cycle: whenever no cycle is
\* in its write section, whether the last one succeeded, aborted or failed
\* in the write step, the temporary file does not exist.
C7_NoTempAfterCycle == holder = 0 => ~Exists(files, TEMP_FILE)

\* C8: a published snapshot stays readable: a successful cycle leaves a
\* readable snapshot, and once a read yields a snapshot every later read
\* does, whatever cycles succeed, abort or fail afterwards.
C8_PublishedStaysReadable ==
    /\ [](lastOutcome = "Published" => Current # <<>>)
    /\ [][Current # <<>> => load_data(files') # <<>>]_vars
    /\ [](lastRead.found => Current # <<>>)

\* a cycle of this run has published, a later cycle has failed in its
\* write step, and a read has found a snapshot
C8_Witness ==
    /\ lastOutcome = "WriteFailed"
    /\ holder = 0
    /\ Current # <<>>
    /\ Current # <<PrevSnapshot>>
    /\ lastRead.read /\ lastRead.found

\* the titles entries map_titles_to_agencies must list for an agency code
TitlesOfCode(title_contents, code) ==
    LET Mapped(t) == AgencyInfo(t.title_number).code = code
    IN  SelectSeq(title_contents, Mapped)

\* r is x rounded to 2 decimals: a whole number of hundredths nearest to x
IsRounded2(r, x) ==
    /\ r % 10 = 0
    /\ r - x <= 5
    /\ x - r <= 5

\* C9: map_titles_to_agencies returns one record per distinct agency code
\* of its input; the record lists every input title of that code in input
\* order, duplicates included, and its size is the sum of their sizes
\* rounded to 2 decimals (a whole number of hundredths, nearest to the sum;
\* when the sum lies halfway between two hundredths, either of them); two
\* inputs of title 40 with 20.0 and 25.0 give one EPA record of 45.0 with
\* two titles.
C9_OneRecordPerAgency ==
    aggPc = "done" =>
        /\ \A i, j \in 1..Len(aggOut) :
              aggOut[i].code = aggOut[j].code => i = j
        /\ {aggOut[i].code : i \in 1..Len(aggOut)}
           = {AgencyInfo(aggIn[j].title_number).code : j \in 1..Len(aggIn)}
        /\ \A i \in 1..Len(aggOut) :
              /\ aggOut[i].titles = TitlesOfCode(aggIn, aggOut[i].code)
              /\ IsRounded2(aggOut[i].regulation_size_mb,
                            SumSizes(TitlesOfCode(aggIn, aggOut[i].code)))
        /\ (aggIn = <<[title_number |-> 40, title_name |-> "Part",
                       size_mb |-> 20000],
                      [title_number |-> 40, title_name |-> "Part",
                       size_mb |-> 25000]>>)
              => /\ Len(aggOut) = 1
                 /\ aggOut[1].code = "EPA"
                 /\ aggOut[1].regulation_size_mb = 45000
                 /\ Len(aggOut[1].titles) = 2

\* the aggregation of title 40 given twice, with 20.0 and 25.0
C9_Witness ==
    /\ aggPc = "done"
    /\ Len(aggIn) = 2
    /\ aggIn[1].title_number = 40 /\ aggIn[1].size_mb = 20000
    /\ aggIn[2].title_number = 40 /\ aggIn[2].size_mb = 25000
    /\ Len(aggOut) = 1
    /\ aggOut[1].regulation_size_mb = 45000

\* the number of positions of titles that hold entry
Occurrences(titles, entry) ==
    Cardinality({k \in 1..Len(titles) : titles[k] = entry})

RECURSIVE TotalTitles(_)
TotalTitles(agencies) ==
    IF agencies = <<>> THEN 0
    ELSE Len(agencies[1].titles) + TotalTitles(Tail(agencies))

\* C10: map_titles_to_agencies drops no input: every input title is listed
\* by exactly one record, the records list as many titles as the input
\* holds, and a title number n that the table lacks is listed by the
\* record with name "Title n Agency" and code "Tn".
C10_NoInputDropped ==
    aggPc = "done" =>
        /\ TotalTitles(aggOut) = Len(aggIn)
        /\ \A j \in 1..Len(aggIn) :
              /\ Cardinality({i \in 1..Len(aggOut) :
                                Occurrences(aggOut[i].titles, aggIn[j]) > 0})
                 = 1
              /\ aggIn[j].title_number \notin DOMAIN title_agency_map
                    => \E i \in 1..Len(aggOut) :
                          /\ aggOut[i].code
                             = "T" \o ToString(aggIn[j].title_number)
                          /\ aggOut[i].name
                             = "Title " \o ToString(aggIn[j].title_number)
                                \o " Agency"
                          /\ Occurrences(aggOut[i].titles, aggIn[j]) > 0

\* the aggregation of title 99 of 20.0 alone
C10_Witness ==
    /\ aggPc = "done"
    /\ Len(aggIn) = 1
    /\ aggIn[1].title_number = 99 /\ aggIn[1].size_mb = 20000
    /\ Len(aggOut) = 1
    /\ aggOut[1].code = "T99"
    /\ aggOut[1].name = "Title 99 Agency"
    /\ aggOut[1].regulation_size_mb = 20000

\* the position at which agency code is first met in title_contents
FirstSeen(title_contents, code) ==
    LET hits == {j \in 1..Len(title_contents) :
                    AgencyInfo(title_contents[j].title_number).code = code}
    IN  CHOOSE j \in hits : \A k \in hits : j <= k

\* C11: the records map_titles_to_agencies returns are in descending order
\* of regulation_size_mb, and records of one size are in the order in which
\* their codes were first met in the input.
C11_SortedStable ==
    aggPc = "done" =>
        \A i, j \in 1..Len(aggOut) :
            i < j =>
                /\ aggOut[i].regulation_size_mb >= aggOut[j].regulation_size_mb
                /\ aggOut[i].regulation_size_mb = aggOut[j].regulation_size_mb
                      => FirstSeen(aggIn, aggOut[i].code)
                         < FirstSeen(aggIn, aggOut[j].code)

\* three agencies, the one met first is the smallest and the other two are
\* of one size: the sort has moved the first record behind the tie
C11_Witness ==
    /\ aggPc = "done"
    /\ Len(aggOut) = 3
    /\ aggOut[1].regulation_size_mb = aggOut[2].regulation_size_mb
    /\ aggOut[2].regulation_size_mb > aggOut[3].regulation_size_mb
    /\ FirstSeen(aggIn, aggOut[3].code) = 1
    /\ FirstSeen(aggIn, aggOut[1].code) = 2

\* an agency record without its timestamp field
StripStamp(a) ==
    [name |-> a.name, code |-> a.code,
     regulation_size_mb |-> a.regulation_size_mb, titles |-> a.titles]

StripStamps(agencies) ==
    [i \in 1..Len(agencies) |-> StripStamp(agencies[i])]

\* C13: a second call of map_titles_to_agencies on the same input, in the
\* process that made the first call, returns the same records in the same
\* order, last_updated apart: nothing the first call built is found by the
\* second.  No call changes its argument.
C13_RerunSameRecords ==
    /\ [](aggPrev # <<>> => StripStamps(aggOut) = StripStamps(aggPrev[1]))
    /\ [][aggPc # "unused" => aggIn' = aggIn]_vars

\* the call was repeated on an input of two agencies of one size, and the
\* two results differ in their timestamps only
C13_Witness ==
    /\ aggPrev # <<>>
    /\ aggData # <<>>
    /\ Len(aggOut) = 2
    /\ aggOut[1].regulation_size_mb = aggOut[2].regulation_size_mb
    /\ aggOut # aggPrev[1]
    /\ aggPrev[1][1].last_updated < aggPrev[1][2].last_updated

RECURSIVE SumRegulationSizes(_)
SumRegulationSizes(agencies) ==
    IF agencies = <<>> THEN 0
    ELSE agencies[1].regulation_size_mb
         + SumRegulationSizes(Tail(agencies))

\* total_agencies counts the agency records and total_size_mb is their
\* sizes' sum rounded to 2 decimals, hence within 0.01 of the sum
TotalsConserved(doc) ==
    /\ doc.total_agencies = Len(doc.agencies)
    /\ doc.total_size_mb = Round2(SumRegulationSizes(doc.agencies))
    /\ doc.total_size_mb - SumRegulationSizes(doc.agencies) \in -10..10

\* C12: every snapshot a cycle builds, and every snapshot published, has
\* total_agencies equal to the number of its agency records and
\* total_size_mb equal to the rounded sum of their regulation_size_mb.
C12_TotalConservation ==
    /\ Current # <<>> => TotalsConserved(Current[1])
    /\ \A c \in Cycles :
          cycle[c].final_data # <<>> => TotalsConserved(cycle[c].final_data[1])

\* a cycle has published a snapshot of two agencies of different sizes
C12_Witness ==
    /\ lastOutcome = "Published"
    /\ RunningCycles = {}
    /\ Current # <<>>
    /\ Len(Current[1].agencies) = 2
    /\ Current[1].agencies[1].regulation_size_mb
       > Current[1].agencies[2].regulation_size_mb
    /\ Current[1].agencies[2].regulation_size_mb > 0
    /\ Current[1].total_size_mb
       = Current[1].agencies[1].regulation_size_mb
         + Current[1].agencies[2].regulation_size_mb

\* C14: fetch_title_structure raises nothing; on a status other than 200,
\* a timeout, a transport error or a body that does not parse it returns
\* the empty sequence, and on success the titles of the response body.
C14_ListTitlesNeverRaises ==
    (callee = "fetch_title_structure" /\ callOut # <<>>) =>
        /\ callOut[1].raised = "none"
        /\ (\/ callArg.resp.kind \in {"timeout", "error"}
            \/ callArg.resp.status # 200
            \/ callArg.resp.json # "ok")
              => callOut[1].value = <<>>
        /\ (/\ callArg.resp.kind = "http"
            /\ callArg.resp.status = 200
            /\ callArg.resp.json = "ok")
              => callOut[1].value = callArg.body

\* a transport error has been answered by the empty sequence
C14_Witness ==
    /\ callee = "fetch_title_structure"
    /\ callArg.resp.kind = "error"
    /\ callArg.body # <<>>
    /\ callOut = <<[raised |-> "none", value |-> <<>>]>>

\* C15: fetch_title_content raises nothing; it returns None on a timeout,
\* a transport error, a status other than 200 and a body that is not a
\* JSON object, and otherwise a record with the title number asked for and
\* size_bytes equal to the length of the body.
C15_FetchContentNeverRaises ==
    (callee = "fetch_title_content" /\ callOut # <<>>) =>
        /\ callOut[1].raised = "none"
        /\ IF /\ callArg.resp.kind = "http"
              /\ callArg.resp.status = 200
              /\ callArg.resp.json = "dict"
           THEN /\ Len(callOut[1].value) = 1
                /\ callOut[1].value[1].title_number = callArg.title_number
                /\ callOut[1].value[1].size_bytes = callArg.resp.len
           ELSE callOut[1].value = <<>>

\* a body that is JSON but no object has been answered by None
C15_Witness ==
    /\ callee = "fetch_title_content"
    /\ callArg.resp.kind = "http"
    /\ callArg.resp.status = 200
    /\ callArg.resp.json = "not_dict"
    /\ callOut = <<[raised |-> "none", value |-> <<>>]>>

FailureOutcomes == {"NoTitles", "NoContent", "WriteFailed"}

\* a cycle returns after a failure: the step changes neither the scheduler
\* nor the application (lifespan proceeds to serve after a failed startup
\* fetch, and nothing else about the application changes), so a scheduler
\* that ran before the failure runs after it; the snapshot read is the one
\* read before and the coroutine no longer runs
C16_FailedCycleStep ==
    \A c \in Cycles :
        (/\ Running(c)
         /\ cycle'[c].pc = "idle"
         /\ lastOutcome' \in FailureOutcomes)
        => /\ schedulerRunning' = schedulerRunning
           /\ appPhase # "stopped" =>
                 (schedulerRunning' /\ appPhase' \in {"startup_fetch", "serving"})
           /\ cycle[c].trigger = "startup" => appPhase' = "serving"
           /\ cycle[c].trigger # "startup" => appPhase' = appPhase
           /\ holder' = 0
           /\ load_data(files') = load_data(files)

\* the scheduler stops in no step but that of shutdown_scheduler
C16_OnlyShutdownStops ==
    (schedulerRunning /\ ~schedulerRunning')
        => (appPhase = "serving" /\ appPhase' = "stopped")

\* C16: no failure of a cycle (no titles, no content, an exception in the
\* aggregation or in the write step) leaves fetch_and_update_data: the step
\* in which a failed cycle returns stops neither the scheduler nor the
\* application, so that after a failed cycle the scheduler is still running
\* and the application still serving unless the application was shut down;
\* POST /api/refresh and the timer still start cycles (a task added by
\* POST /api/refresh can be entered), and load_data returns what it
\* returned before the failure.
C16_FailureContained ==
    /\ [][C16_FailedCycleStep /\ C16_OnlyShutdownStops]_vars
    /\ []((appPhase \in {"startup_fetch", "serving"}) => schedulerRunning)
    /\ []((/\ lastOutcome \in FailureOutcomes
           /\ appPhase = "serving"
           /\ holder = 0
           /\ \A c \in Cycles : cycle[c].pc = "idle")
          => /\ ENABLED PostRefresh(Cycles)
             /\ ENABLED TimerFire(Cycles))
    /\ []((lastOutcome \in FailureOutcomes /\ holder = 0)
          => \A c \in Cycles :
                cycle[c].pc = "queued" => ENABLED TaskStart(c))

\* the startup fetch has failed in its write step: the application serves
\* without a snapshot and the scheduler is running
C16_Witness ==
    /\ lastOutcome = "WriteFailed"
    /\ appPhase = "serving"
    /\ schedulerRunning
    /\ RunningCycles = {}
    /\ Current = <<>>
    /\ lastRead.read /\ ~lastRead.found

\* the handler named has answered
Answered(handler) == callee = handler /\ callOut # <<>>

\* C17 as stated: GET /api/agencies answers with the whole current
\* snapshot when there is one, and otherwise with status 503 and a body
\* that has the fields error and message.
C17_AgenciesOr503ErrorBody ==
    Answered("get_agencies") =>
        IF Current # <<>>
        THEN /\ callOut[1].status = 200
             /\ callOut[1].body = Current[1]
        ELSE /\ callOut[1].status = 503
             /\ {"error", "message"} \subseteq DOMAIN callOut[1].body

\* the lower-case form of each upper-case letter
LowerCase ==
    ("A" :> "a") @@ ("B" :> "b") @@ ("C" :> "c") @@ ("D" :> "d") @@
    ("E" :> "e") @@ ("F" :> "f") @@ ("G" :> "g") @@ ("H" :> "h") @@
    ("I" :> "i") @@ ("J" :> "j") @@ ("K" :> "k") @@ ("L" :> "l") @@
    ("M" :> "m") @@ ("N" :> "n") @@ ("O" :> "o") @@ ("P" :> "p") @@
    ("Q" :> "q") @@ ("R" :> "r") @@ ("S" :> "s") @@ ("T" :> "t") @@
    ("U" :> "u") @@ ("V" :> "v") @@ ("W" :> "w") @@ ("X" :> "x") @@
    ("Y" :> "y") @@ ("Z" :> "z")

\* letter case folded
Lower(s) == MapChars(s, LowerCase)

\* C18: GET /api/agencies/{code} answers 503 for every code when there is
\* no snapshot; otherwise it returns the record whose code is the code
\* requested up to letter case ("epa" finds "EPA"), and 404 when the
\* current snapshot has no such record.
C18_AgencyLookup ==
    Answered("get_agency") =>
        IF Current = <<>> THEN callOut[1].status = 503
        ELSE LET agencies == Current[1].agencies
                 matching == {agencies[i] : i \in
                                {i \in 1..Len(agencies) :
                                    Lower(agencies[i].code) = Lower(callArg)}}
             IN  /\ matching = {} => callOut[1].status = 404
                 /\ matching # {} => /\ callOut[1].status = 200
                                     /\ callOut[1].body \in matching
                 /\ (callArg = "epa"
                     /\ \E i \in 1..Len(agencies) : agencies[i].code = "EPA")
                       => /\ callOut[1].status = 200
                          /\ callOut[1].body.code = "EPA"

\* a lookup of "epa" has found the record of EPA, which is not the first
\* record of the snapshot
C18_Witness ==
    /\ Answered("get_agency")
    /\ callArg = "epa"
    /\ Current # <<>>
    /\ Len(Current[1].agencies) = 3
    /\ Current[1].agencies[1].code # "EPA"
    /\ callOut[1].status = 200
    /\ callOut[1].body.code = "EPA"

\* C19: GET /health always answers with status 200; its status field is
\* "degraded" exactly when there is no snapshot and "healthy" otherwise,
\* and last_data_update is the last_sync of the current snapshot, null
\* when there is none.
C19_HealthReflectsStore ==
    Answered("health_check") =>
        /\ callOut[1].status = 200
        /\ callOut[1].body.status
           = (IF Current = <<>> THEN "degraded" ELSE "healthy")
        /\ callOut[1].body.last_data_update
           = (IF Current = <<>> THEN <<>> ELSE <<Current[1].last_sync>>)

\* the health check has answered "degraded" on a store without a snapshot
C19_Witness ==
    /\ Answered("health_check")
    /\ ~Exists(files, DATA_FILE)
    /\ callOut[1].status = 200
    /\ callOut[1].body.status = "degraded"
    /\ callOut[1].body.last_data_update = <<>>

\* the fields of GET /api/stats that do not depend on rounding
StatsOfSnapshot(doc, body) ==
    /\ body.total_agencies = Len(doc.agencies)
    /\ body.total_size_mb = doc.total_size_mb
    /\ body.last_sync = doc.last_sync
    /\ Len(body.largest_agency) = 1
    /\ Len(body.smallest_agency) = 1
    /\ \E i \in 1..Len(doc.agencies) : doc.agencies[i] = body.largest_agency[1]
    /\ \E i \in 1..Len(doc.agencies) : doc.agencies[i] = body.smallest_agency[1]
    /\ \A i \in 1..Len(doc.agencies) :
          /\ doc.agencies[i].regulation_size_mb
             <= body.largest_agency[1].regulation_size_mb
          /\ doc.agencies[i].regulation_size_mb
             >= body.smallest_agency[1].regulation_size_mb

\* C20 as stated: GET /api/stats answers 503 without a snapshot, and
\* otherwise every field is taken from the current snapshot, with
\* average_size_mb equal to total_size_mb divided by the number of
\* agencies.
C20_StatsExactAverage ==
    Answered("get_statistics") =>
        IF Current = <<>> THEN callOut[1].status = 503
        ELSE /\ callOut[1].status = 200
             /\ StatsOfSnapshot(Current[1], callOut[1].body)
             /\ callOut[1].body.average_size_mb * Len(Current[1].agencies)
                = Current[1].total_size_mb

\* C20 as amended: GET /api/stats answers 503 without a snapshot, and
\* otherwise every field is taken from the current snapshot, with
\* average_size_mb equal to total_size_mb divided by the number of
\* agencies and rounded to 2 decimals (within 0.005 of the quotient).
C20_StatsRoundedAverage ==
    Answered("get_statistics") =>
        IF Current = <<>> THEN callOut[1].status = 503
        ELSE LET n == Len(Current[1].agencies)
                 avg == callOut[1].body.average_size_mb
             IN  /\ callOut[1].status = 200
                 /\ StatsOfSnapshot(Current[1], callOut[1].body)
                 /\ avg % 10 = 0
                 /\ avg * n - Current[1].total_size_mb \in (-5 * n)..(5 * n)

\* the statistics of three agencies of 5.0, 5.0 and 25.0: the average is
\* 11.67
C20_Witness ==
    /\ Answered("get_statistics")
    /\ Current # <<>>
    /\ Len(Current[1].agencies) = 3
    /\ Current[1].total_size_mb = 35000
    /\ callOut[1].status = 200
    /\ callOut[1].body.average_size_mb = 11670
    /\ callOut[1].body.largest_agency[1].regulation_size_mb = 25000
    /\ callOut[1].body.smallest_agency[1].regulation_size_mb = 5000


\* C21: POST /api/refresh answers 200 with status "processing" whatever
\* number of cycles was running when it arrived; the request's step adds
\* one task, which is not entered before the response is returned, and
\* changes nothing of the store, and the response stays what it was while
\* the cycles it triggered succeed, abort or fail.
C21_RefreshAnswersProcessing ==
    /\ [](callee = "refresh_data" =>
            /\ Len(callOut) = 1
            /\ callOut[1].status = 200
            /\ DOMAIN callOut[1].body = {"message", "status", "timestamp"}
            /\ callOut[1].body.message = "Data refresh triggered"
            /\ callOut[1].body.status = "processing")
    /\ [][(callee' = "refresh_data"
           /\ Cardinality({c \in Cycles : cycle'[c].pc = "queued"})
                > Cardinality({c \in Cycles : cycle[c].pc = "queued"}))
          => /\ callOut'[1].body.timestamp = now
             /\ callArg' = Cardinality(RunningCycles)
             /\ files' = files
             /\ dirExists' = dirExists
             /\ lastOutcome' = lastOutcome
             /\ \E c \in Cycles :
                   /\ cycle[c].pc = "idle"
                   /\ cycle'[c].pc = "queued"
                   /\ cycle'[c].trigger = "manual"
                   /\ \A d \in Cycles \ {c} : cycle'[d] = cycle[d]]_vars
    /\ [][callee = "refresh_data" => callOut' = callOut]_vars

\* a request that arrived while another cycle was running has been
\* answered, and a cycle has since failed in its write step
C21_Witness ==
    /\ Answered("refresh_data")
    /\ callArg = 1
    /\ callOut[1].body.status = "processing"
    /\ lastOutcome = "WriteFailed"
    /\ RunningCycles = {}


\* C22: get_scheduler_status reports running = TRUE exactly between
\* start_scheduler (at startup) and stop_scheduler (at shutdown), then
\* with the one scheduled job, its id and its next run time; before the
\* start and after the stop it reports running = FALSE and no job.
C22_SchedulerStatus ==
    /\ [](LET s == get_scheduler_status
              started == appPhase \in {"startup_fetch", "serving"}
          IN  /\ DOMAIN s = {"running", "jobs"}
              /\ s.running = started
              /\ started =>
                    /\ Len(s.jobs) = 1
                    /\ s.jobs[1].id = "daily_data_update"
                    /\ s.jobs[1].next_run_time = [hour |-> 2, minute |-> 0]
              /\ ~started => s.jobs = <<>>)
    /\ [][/\ (appPhase = "init" /\ appPhase' # "init")
             => (~get_scheduler_status.running
                 /\ get_scheduler_status'.running)
          /\ (appPhase # "stopped" /\ appPhase' = "stopped")
             => (get_scheduler_status.running
                 /\ ~get_scheduler_status'.running)]_vars

\* the scheduler was started, ran a timer cycle to its end and was stopped
C22_Witness ==
    /\ appPhase = "stopped"
    /\ lastOutcome = "Published"
    /\ ~get_scheduler_status.running
    /\ get_scheduler_status.jobs = <<>>


\* C23: during a fan-out at most 10 content requests are in flight at any
\* moment, also when more than 10 titles were listed; every request is
\* waiting, in flight or over.
C23_InFlightBounded ==
    /\ fan.inflight <= 10
    /\ fan.inflight <= ConnectorLimit
    /\ fan.queued + fan.inflight + fan.ok + fan.failed + fan.timed_out
         + fan.starved = fan.tasks

\* 11 requests were started: 10 are in flight and one waits
C23_Witness ==
    /\ fan.pc = "gathering"
    /\ fan.tasks > ConnectorLimit
    /\ fan.inflight = ConnectorLimit
    /\ fan.queued > 0

Orderings(s) ==
    {p \in [1..Len(s) -> 1..Len(s)] :
        \A i, j \in 1..Len(s) : p[i] = p[j] => i = j}

Reordered(s, p) == [i \in 1..Len(s) |-> s[p[i]]]

\* the result of the call that was made, had its input come in order p
AggOutOf(p) ==
    map_titles_to_agencies(Reordered(aggIn, p),
                           Readings(0, NumAgencies(aggIn), aggTick))

RecordOf(a) ==
    [code |-> a.code, name |-> a.name,
     regulation_size_mb |-> a.regulation_size_mb,
     titles |-> {a.titles[i] : i \in 1..Len(a.titles)}]

RecordsOf(agencies) == {RecordOf(agencies[i]) : i \in 1..Len(agencies)}

\* C25: every ordering of the input of map_titles_to_agencies
\* gives the same set of records: code, name, regulation_size_mb and set
\* of titles of each agency.
C25_SameRecordsAnyOrder ==
    aggPc = "done" =>
        \A p \in Orderings(aggIn) : RecordsOf(AggOutOf(p)) = RecordsOf(aggOut)

\* C26: the records one call of map_titles_to_agencies returns all carry
\* the same last_updated, also when the clock advances during the call.
C26_OneStampPerRun ==
    aggPc = "done" =>
        \A i, j \in 1..Len(aggOut) :
            aggOut[i].last_updated = aggOut[j].last_updated


\* C27: every cycle that has been triggered (a task added by
\* POST /api/refresh included, before it is entered) eventually is over
\* (published, aborted or failed) and its coroutine slot is idle again;
\* the event loop a cycle
\* holds is given back, and a timer trigger that an earlier timer cycle
\* keeps from starting is eventually allowed again.
C27_EveryCycleEnds ==
    /\ \A c \in Cycles : (cycle[c].pc # "idle") ~> (cycle[c].pc = "idle")
    /\ (holder # 0) ~> (holder = 0)
    /\ (~TimerTriggerAllowed) ~> TimerTriggerAllowed

\* cycles ran, one published, the last one failed in its write step, and
\* the runner is idle
C27_Witness ==
    /\ RunningCycles = {}
    /\ holder = 0
    /\ appPhase = "serving"
    /\ ~Exists(files, TEMP_FILE)
    /\ Exists(files, DATA_FILE)
    /\ lastOutcome = "WriteFailed"


InWriteSection(c) == cycle[c].pc \in {"collected", "writing"}

\* from the return of the fan-out to its own return a cycle holds the
\* event loop: it is the only one in its write section, every step is its
\* own, and the temporary file holds the start of its own document
WriteSectionsApart ==
    /\ [](\A c \in Cycles :
             /\ InWriteSection(c) <=> holder = c
             /\ cycle[c].pc = "writing" =>
                   /\ Exists(files, TEMP_FILE)
                   /\ \E n \in 0..Len(JsonDump(cycle[c].final_data[1])) :
                         files[TEMP_FILE][1] =
                             SubSeq(JsonDump(cycle[c].final_data[1]), 1, n))
    /\ [][holder # 0 =>
             /\ \A d \in Cycles \ {holder} : cycle'[d] = cycle[d]
             /\ holder' \in {holder, 0}]_vars

\* the canonical file after a rename is the document of the cycle that
\* renamed it
RenamedIsOwn ==
    [][\A c \in Cycles :
          (cycle[c].pc = "writing" /\ cycle'[c].pc = "idle"
           /\ lastOutcome' = "Published")
          => (load_data(files') = cycle[c].final_data
              /\ ~Exists(files', TEMP_FILE))]_vars

\* C28: the write sections of overlapping cycles do not
\* interleave, the canonical file after a rename is the snapshot of the
\* cycle that renamed it, and a cycle that enters its write section never
\* overwrites or removes a temporary file another cycle has written.
C28_NoForeignTempTouched ==
    /\ WriteSectionsApart
    /\ RenamedIsOwn
    /\ [][\A c \in Cycles :
             (holder = c /\ cycle[c].pc = "collected"
              /\ Exists(files, TEMP_FILE))
             => files'[TEMP_FILE] = files[TEMP_FILE]]_vars

\* cycle c renames its temporary file to the canonical path
Publishes(c) ==
    /\ cycle[c].pc = "writing"
    /\ cycle'[c].pc = "idle"
    /\ lastOutcome' = "Published"

\* a snapshot keeps no start time of the cycle that built it; its
\* last_sync is read before the clock reading from which its
\* fetch_duration_seconds = reading - start_time is taken, so the cycle
\* started at last_sync - fetch_duration_seconds or later
EarliestStart(doc) == doc.last_sync - doc.fetch_duration_seconds

\* C29: snapshots become current in the order in which their cycles
\* started: a cycle that publishes has not started before the cycle whose
\* snapshot it replaces.  The replaced snapshot's cycle started at
\* EarliestStart or later, so a publishing cycle that started before
\* EarliestStart of the current snapshot started before the cycle whose
\* snapshot it replaces.
C29_PublishedInStartOrder ==
    [][\A c \in Cycles :
          (Publishes(c) /\ Current # <<>>)
          => cycle[c].start_time >= EarliestStart(Current[1])]_vars

\* C30: the last_sync of the current snapshot never decreases from one
\* publication to the next, whichever cycles overlap: it is the clock
\* reading of the publishing cycle's own write section.
C30_LastSyncMonotone ==
    [][\A c \in Cycles :
          Publishes(c)
          => /\ Current' = cycle[c].final_data
             /\ Current'[1].last_sync <= now
             /\ Current'[1].last_sync >= cycle[c].start_time
             /\ Current # <<>> =>
                   Current'[1].last_sync >= Current[1].last_sync]_vars

\* a cycle that started before the clock advanced has published after
\* it, while another cycle that overlaps it is still fetching
C30_Witness ==
    /\ lastOutcome = "Published"
    /\ Current # <<>>
    /\ Current[1].last_sync = MaxClock
    /\ Current[1].fetch_duration_seconds = MaxClock
    /\ \E d \in Cycles : cycle[d].pc = "fetching"
    /\ appPhase = "serving"


\* the positions of a listing whose entry has a number (present, not 0)
Numbered(titles) == {i \in 1..Len(titles) : titles[i].number # 0}

\* the rank of position i among the numbered positions
RankOf(titles, i) == Cardinality({j \in Numbered(titles) : j <= i})

\* the numbered positions whose fetch succeeded, given the responses to the
\* fetches in the order they were started
KeptPositions(titles, responses) ==
    {i \in Numbered(titles) :
        /\ RankOf(titles, i) <= Len(responses)
        /\ Succeeds(responses[RankOf(titles, i)])}

\* C31: the fan-out starts one content fetch per listed title with a
\* number and none for an entry whose number is missing or 0; what it
\* returns are the successful fetches in listing order, never more than
\* the fetches started.
C31_OneFetchPerNumberedTitle ==
    \A c \in Cycles :
        cycle[c].pc = "collected" =>
            LET titles == cycle[c].titles
                got == cycle[c].title_contents
                kept == KeptPositions(titles, cycle[c].responses)
            IN  /\ Len(cycle[c].responses) = Cardinality(Numbered(titles))
                /\ Len(got) <= Len(cycle[c].responses)
                /\ Len(got) = Cardinality(kept)
                /\ \A k \in 1..Len(got) : got[k].title_number # 0
                /\ \A i \in kept :
                      got[Cardinality({j \in kept : j <= i})].title_number
                          = titles[i].number

\* the listing had an entry without a number before title 40: one fetch
\* was started, and it succeeded
C31_Witness ==
    /\ cycle[1].pc = "collected"
    /\ Len(cycle[1].titles) = 2
    /\ cycle[1].titles[1].number = 0
    /\ cycle[1].titles[2].number = 40
    /\ Len(cycle[1].responses) = 1
    /\ Len(cycle[1].title_contents) = 1
    /\ cycle[1].title_contents[1].title_number = 40


\* the canonical file exists and json.load cannot parse it
Unparseable(fs) ==
    Exists(fs, DATA_FILE) /\ ~WellFormedJson(fs[DATA_FILE][1])

\* what the handler called answers when there is no canonical file
AnswerWithoutSnapshot ==
    CASE callee = "health_check" -> health_check(NoFiles, now)
      [] callee = "get_agencies" -> get_agencies(NoFiles)
      [] callee = "get_agency" -> get_agency(NoFiles, callArg)
      [] callee = "get_statistics" -> get_statistics(NoFiles)

\* C32: on a canonical file that exists but cannot be parsed load_data
\* returns None, and every read endpoint answers as it does without a
\* file: /health reports degraded without a last update, the three data
\* endpoints answer 503; no handler raises (status 500) and none returns
\* a document.
C32_UnparseableIsMissing ==
    /\ Unparseable(files) => load_data(files) = <<>>
    /\ (Unparseable(files)
        /\ \E h \in {"health_check", "get_agencies", "get_agency",
                     "get_statistics"} : Answered(h))
       => /\ callOut[1] = AnswerWithoutSnapshot
          /\ callOut[1].status # 500
          /\ IF callee = "health_check"
             THEN /\ callOut[1].status = 200
                  /\ callOut[1].body.status = "degraded"
                  /\ callOut[1].body.last_data_update = <<>>
             ELSE /\ callOut[1].status = 503
                  /\ DOMAIN callOut[1].body = {"detail"}

\* GET /api/stats has answered 503 on a canonical file that holds the
\* first chunks of a document
C32_Witness ==
    /\ Answered("get_statistics")
    /\ Exists(files, DATA_FILE)
    /\ Len(files[DATA_FILE][1]) > 1
    /\ files[DATA_FILE][1][1].key = "{"
    /\ ~WellFormedJson(files[DATA_FILE][1])
    /\ callOut[1].status = 503


RunningObjects == {i \in 1..Len(sched.objects) : sched.objects[i].running}

\* the last call made, "" before the first
LastCall(calls) == IF calls = <<>> THEN "" ELSE calls[Len(calls)]

\* C33: after any sequence of start_scheduler and stop_scheduler calls at
\* most one scheduler object runs, it is the module's scheduler and it
\* holds the single job 'daily_data_update'; start_scheduler while one
\* runs and stop_scheduler while none runs change nothing; stop_scheduler
\* while one runs leaves none, and start_scheduler while none runs makes a
\* new object that runs with that job.
C33_OneSchedulerOneJob ==
    /\ [](/\ Cardinality(RunningObjects) <= 1
          /\ RunningObjects =
                (IF sched.scheduler = 0 THEN {} ELSE {sched.scheduler})
          /\ schedulerRunning = (RunningObjects # {})
          /\ \A i \in RunningObjects :
                /\ Len(sched.objects[i].jobs) = 1
                /\ sched.objects[i].jobs[1].id = "daily_data_update")
    /\ [][callArg' # callArg =>
            LET call == LastCall(callArg')
                was == RunningObjects # {}
            IN  /\ (call = "start_scheduler" /\ was) => sched' = sched
                /\ (call = "stop_scheduler" /\ ~was) => sched' = sched
                /\ (call = "stop_scheduler" /\ was) =>
                      /\ sched'.scheduler = 0
                      /\ \A i \in 1..Len(sched'.objects) :
                            ~sched'.objects[i].running
                      /\ Len(sched'.objects) = Len(sched.objects)
                /\ (call = "start_scheduler" /\ ~was) =>
                      /\ sched'.scheduler = Len(sched.objects) + 1
                      /\ Len(sched'.objects) = Len(sched.objects) + 1
                      /\ sched'.objects[sched'.scheduler].running
                      /\ \A i \in 1..Len(sched.objects) :
                            sched'.objects[i] = sched.objects[i]]_vars

\* start, start again, stop, stop again, start: the second object runs
C33_Witness ==
    /\ callArg = <<"start_scheduler", "start_scheduler", "stop_scheduler",
                   "stop_scheduler", "start_scheduler">>
    /\ Len(sched.objects) = 2
    /\ sched.scheduler = 2
    /\ ~sched.objects[1].running
    /\ sched.objects[2].running


\* the sizes calculate_agency_sizes has recorded, over all its records
FixedRecorded ==
    {t \in UNION {{a.titles[j] : j \in 1..Len(a.titles)} :
                    a \in {callOut.agencies[i] :
                             i \in 1..Len(callOut.agencies)}} : TRUE}

\* C34: in fetcher_fixed.calculate_agency_sizes the size recorded for a
\* title number is the size returned by a fetch issued for that title
\* number, for every listing, also one with entries whose number is
\* missing or zero.
C34_SizeOfOwnFetch ==
    (callee = "fetcher_fixed" /\ callOut.pc = "calculated") =>
        \A t \in FixedRecorded :
            \E k \in 1..Len(fixed_tasks(callArg.titles)) :
                /\ fixed_tasks(callArg.titles)[k] = t.title_number
                /\ t.size_mb = fetch_title_size(t.title_number,
                                                callArg.responses[k])


\* a size request that fails: a timeout, another exception, a status
\* other than 200
SizeFetchFailed(resp) == resp.kind # "http" \/ resp.status # 200

\* the listing request of calculate_agency_sizes succeeded
FixedListingOk ==
    /\ callArg.listing.kind = "http"
    /\ callArg.listing.status = 200
    /\ callArg.listing.json = "ok"

\* the snapshot fetcher_fixed has published, <<>> when the file was not
\* replaced by this run
FixedPublished ==
    IF callOut.outcome = "Published" THEN load_data(files) ELSE <<>>

\* C35: in fetcher_fixed a failed size fetch yields 0.0 and the title is
\* recorded with size 0.0 instead of being left out; fetch_and_update_data
\* aborts without publishing only when the listing fails or lists no
\* numbered title; when every size fetch fails the published snapshot has
\* all sizes 0.
C35_FailedFetchRecordedAsZero ==
    (callee = "fetcher_fixed" /\ callOut.pc = "done") =>
        LET tasks == fixed_tasks(callArg.titles)
            agencies == calculate_agency_sizes(callArg.listing,
                            callArg.titles, callArg.responses,
                            [i \in 1..Len(tasks) |-> now])
            failing == {k \in 1..Len(tasks) :
                          SizeFetchFailed(callArg.responses[k])}
            allFail == {n \in {tasks[k] : k \in 1..Len(tasks)} :
                          \A k \in 1..Len(tasks) :
                              tasks[k] = n => k \in failing}
        IN  /\ \A k \in failing :
                  fetch_title_size(tasks[k], callArg.responses[k]) = 0
            /\ FixedListingOk =>
                  \A n \in allFail :
                     \E i \in 1..Len(agencies) :
                        \E j \in 1..Len(agencies[i].titles) :
                           /\ agencies[i].titles[j].title_number = n
                           /\ agencies[i].titles[j].size_mb = 0
            /\ callOut.outcome = "Aborted" =>
                  ~FixedListingOk \/ tasks = <<>>
            /\ (/\ FixedListingOk
                /\ tasks # <<>>
                /\ failing = 1..Len(tasks)
                /\ callOut.outcome = "Published") =>
                  /\ FixedPublished # <<>>
                  /\ FixedPublished[1].total_size_mb = 0
                  /\ FixedPublished[1].agencies # <<>>
                  /\ \A i \in 1..Len(FixedPublished[1].agencies) :
                        FixedPublished[1].agencies[i].regulation_size_mb = 0

====
